---- MODULE Spec2Model ----
(***************************************************************************)
(* Model of the UPSF shard manager (upsf_shard_manager/app.py).            *)
(*                                                                         *)
(* The program is one ShardManager object with three threads:              *)
(*   - the main thread, which constructs the object (initialize():         *)
(*     create_default_items, spawn of the periodic task, startup           *)
(*     map_shards) and then starts the watch thread,                       *)
(*   - the watch thread (run()), which calls map_shards for watch events,  *)
(*   - the periodic task (upsf_register_task), which calls                 *)
(*     create_default_items.                                               *)
(* A further thread may call stop().  The watch stream of the store yields *)
(* items, ends or fails.                                                   *)
(* The UPSF store is external; it is modelled by the lists it returns and  *)
(* by the effect of createShard / updateShard on the shard list.           *)
(***************************************************************************)
EXTENDS Naturals, Integers, Sequences, FiniteSets, TLC

(***************************************************************************)
(* Bounds of the model.                                                    *)
(***************************************************************************)
\* pending watch events are counted up to this number (then coalesced)
MaxEvents == 2
\* number of changes made to the store from outside in one behaviour
MaxEnvChanges == 1
\* number of create_default_items calls of the periodic task that return,
\* in one behaviour
MaxTicks == 1
\* number of incidents on the watch stream in one behaviour: the stream
\* ends, fails, or yields an item without a name
MaxStreamIncidents == 1
\* number of create_default_items calls that fail, in one behaviour
MaxFaults == 1

(***************************************************************************)
(* Python values.                                                          *)
(***************************************************************************)
\* Python's None (a policy key that is absent or null)
None == "<None>"

\* a dict with no entry / an empty list
EmptyMap == <<>>

Min2(a, b) == IF a < b THEN a ELSE b

\* x in list
InSeq(x, seq) == \E i \in DOMAIN seq : seq[i] = x

\* [item.name for item in items]
Names(items) == [i \in DOMAIN items |-> items[i].name]

\* the elements of a list, as a set
Range(seq) == {seq[i] : i \in DOMAIN seq}

\* sep.join(strs)
RECURSIVE Join(_, _)
Join(strs, sep) ==
    IF Len(strs) = 0 THEN ""
    ELSE IF Len(strs) = 1 THEN strs[1]
    ELSE strs[1] \o sep \o Join(Tail(strs), sep)

\* the list obtained from seq by keeping the elements that are in S
RECURSIVE Filter(_, _)
Filter(seq, S) ==
    IF Len(seq) = 0 THEN <<>>
    ELSE IF Head(seq) \in S THEN <<Head(seq)>> \o Filter(Tail(seq), S)
    ELSE Filter(Tail(seq), S)

(***************************************************************************)
(* The policy file: whether the path exists, whether the loader accepts    *)
(* the document (valid), whether the document is empty, so that yaml.load  *)
(* returns None (empty), and the list config["upsf"]["shards"].  An entry  *)
(* is a record whose field keys is the set of keys the entry has in the    *)
(* file.                                                                   *)
(***************************************************************************)
\* get_static_shard_to_sgup_mapping: the loop over the entries
RECURSIVE StaticPinIn(_, _)
StaticPinIn(entries, shard_name) ==
    IF Len(entries) = 0 THEN None
    ELSE LET entry == Head(entries) IN
         IF {"name", "serviceGatewayUserPlane"} \subseteq entry.keys
            /\ entry.name = shard_name
         THEN entry.serviceGatewayUserPlane
         ELSE StaticPinIn(Tail(entries), shard_name)

\* the call raises an exception that no handler of the function catches:
\* the error of the loader (yaml.load on a malformed document), the
\* AttributeError of config.get on None, the UnicodeEncodeError of
\* str.encode("ascii")
Raises == "<raises>"

\* get_static_shard_to_sgup_mapping(shard_name) on the policy file pol
get_static_shard_to_sgup_mapping(pol, shard_name) ==
    IF ~pol.exists THEN None
    ELSE IF ~pol.valid THEN Raises
    ELSE IF pol.empty THEN None
    ELSE StaticPinIn(pol.shards, shard_name)

(***************************************************************************)
(* map_shards: selection of the user plane.                                *)
(***************************************************************************)
\* a test that sends every shard to the selection of a user plane
NeedMappingAlways(static_up_name, up_name, up_names) == TRUE

\* "need up mapping": the condition of the if statement
NeedMapping(static_up_name, up_name, up_names) ==
    \/ (static_up_name # None /\ up_name # static_up_name)
    \/ ~InSeq(up_name, up_names)

\* the filter of the sgup_load comprehension
IsCandidate(sgup, sg_names) ==
    sgup.max_session_count > 0 /\ InSeq(sgup.service_gateway_name, sg_names)

\* the keys of sgup_load, in insertion order
sgup_load(sgups, sg_names) ==
    SelectSeq(sgups, LAMBDA sgup : IsCandidate(sgup, sg_names))

\* allocated_session_count / max_session_count of a is less than that of b
LoadLess(a, b) ==
    a.allocated_session_count * b.max_session_count
        < b.allocated_session_count * a.max_session_count

\* min(sgup_load, key=sgup_load.get): the first key with the smallest value
RECURSIVE MinFrom(_, _)
MinFrom(best, rest) ==
    IF Len(rest) = 0 THEN best
    ELSE MinFrom(IF LoadLess(Head(rest), best) THEN Head(rest) ELSE best,
                 Tail(rest))

\* a minimum that keeps the last of the keys with the smallest value
RECURSIVE MinFromLast(_, _)
MinFromLast(best, rest) ==
    IF Len(rest) = 0 THEN best
    ELSE MinFromLast(IF LoadLess(best, Head(rest)) THEN best ELSE Head(rest),
                     Tail(rest))

LeastLoadedLastWins(cands) == MinFromLast(Head(cands), Tail(cands)).name

LeastLoaded(cands) == MinFrom(Head(cands), Tail(cands)).name

(***************************************************************************)
(* map_shards: matching of the network connections.  A network connection  *)
(* is a record with the name, the string WhichOneof("nc_spec") reports     *)
(* (field which) and the four members of the oneof; an endpoint is         *)
(* modelled by its name.                                                   *)
(***************************************************************************)
SsPtpTags == {"SsPtpSpec", "ss_ptp"}
SsMptpTags == {"SsMptpSpec", "ss_mptpc"}
MsPtpTags == {"MsPtpSpec", "ms_ptp"}
MsMptpTags == {"MsMptpSpec", "ms_mptp"}

\* the branch SS-PTP: one tsf_endpoint, a list of sgup_endpoint
MatchSsPtp(network_connection, up_ep_name, tsf_ep_name) ==
    \E i \in DOMAIN network_connection.ss_ptp.sgup_endpoint :
        /\ up_ep_name = network_connection.ss_ptp.sgup_endpoint[i]
        /\ tsf_ep_name = network_connection.ss_ptp.tsf_endpoint

\* the branch SS-MPTP: a list of sgup_endpoint, a list of tsf_endpoint
MatchSsMptp(network_connection, up_ep_name, tsf_ep_name) ==
    \E i \in DOMAIN network_connection.ss_mptp.sgup_endpoint :
        \E j \in DOMAIN network_connection.ss_mptp.tsf_endpoint :
            /\ up_ep_name = network_connection.ss_mptp.sgup_endpoint[i]
            /\ tsf_ep_name = network_connection.ss_mptp.tsf_endpoint[j]

\* the branch MS-PTP with the test on the TSF endpoint left out
MatchMsPtpUpOnly(network_connection, up_ep_name, tsf_ep_name) ==
    up_ep_name = network_connection.ms_ptp.sgup_endpoint

\* the branch MS-PTP: one tsf_endpoint, one sgup_endpoint
MatchMsPtp(network_connection, up_ep_name, tsf_ep_name) ==
    /\ up_ep_name = network_connection.ms_ptp.sgup_endpoint
    /\ tsf_ep_name = network_connection.ms_ptp.tsf_endpoint

\* the branch MS-MPTP: one sgup_endpoint, a list of tsf_endpoint
MatchMsMptp(network_connection, up_ep_name, tsf_ep_name) ==
    \E j \in DOMAIN network_connection.ms_mptp.tsf_endpoint :
        /\ up_ep_name = network_connection.ms_mptp.sgup_endpoint
        /\ tsf_ep_name = network_connection.ms_mptp.tsf_endpoint[j]

\* the if / elif chain on nc_spec_type: does network_connection match the
\* pair (up_ep_name, tsf_ep_name)
NcMatch(network_connection, up_ep_name, tsf_ep_name) ==
    LET nc_spec_type == network_connection.which IN
    IF nc_spec_type \in SsPtpTags
    THEN MatchSsPtp(network_connection, up_ep_name, tsf_ep_name)
    ELSE IF nc_spec_type \in SsMptpTags
    THEN MatchSsMptp(network_connection, up_ep_name, tsf_ep_name)
    ELSE IF nc_spec_type \in MsPtpTags
    THEN MatchMsPtp(network_connection, up_ep_name, tsf_ep_name)
    ELSE IF nc_spec_type \in MsMptpTags
    THEN MatchMsMptp(network_connection, up_ep_name, tsf_ep_name)
    ELSE FALSE

\* d[k] = v on a dict
MapPut(d, k, v) == [x \in DOMAIN d \cup {k} |-> IF x = k THEN v ELSE d[x]]

\* the loop "for network_connection in ncs" for one tsf; acc holds
\* desired_network_connection and tsf_network_connection
RECURSIVE ScanNcs(_, _, _, _)
ScanNcs(ncs, tsf, up_ep_name, acc) ==
    IF Len(ncs) = 0 THEN acc
    ELSE LET network_connection == Head(ncs)
             tsf_ep_name == tsf.default_endpoint
             next == IF NcMatch(network_connection, up_ep_name, tsf_ep_name)
                     THEN [desired_network_connection |->
                               acc.desired_network_connection
                                   \cup {network_connection.name},
                           tsf_network_connection |->
                               MapPut(acc.tsf_network_connection, tsf.name,
                                      network_connection.name)]
                     ELSE acc
         IN ScanNcs(Tail(ncs), tsf, up_ep_name, next)

\* the loop "for tsf in tsfs"
RECURSIVE ScanTsfs(_, _, _, _)
ScanTsfs(tsfs, ncs, up_ep_name, acc) ==
    IF Len(tsfs) = 0 THEN acc
    ELSE ScanTsfs(Tail(tsfs), ncs, up_ep_name,
                  ScanNcs(ncs, Head(tsfs), up_ep_name, acc))

MatchNetworkConnections(tsfs, ncs, up_ep_name) ==
    ScanTsfs(tsfs, ncs, up_ep_name,
             [desired_network_connection |-> {},
              tsf_network_connection |-> EmptyMap])

(***************************************************************************)
(* map_shards: the fingerprint.  hashlib.sha256 is taken to be free of     *)
(* collisions, so a digest is modelled by the string it is computed from.  *)
(* finger.encode("ascii") raises UnicodeEncodeError for a string with a    *)
(* character outside ASCII; NonAsciiNames are the names of the model that  *)
(* hold such a character.                                                  *)
(***************************************************************************)
NonAsciiNames == {"né"}

IsAscii(name) == name \notin NonAsciiNames

Fingerprint(up_name, network_connection) ==
    IF IsAscii(up_name) /\ \A k \in DOMAIN network_connection :
                                IsAscii(network_connection[k])
    THEN up_name \o "/" \o Join(network_connection, ",")
    ELSE Raises

\* service_groups_supported of the update: the labels other than "" and None
ServiceGroupsSupported(supported_service_group) ==
    SelectSeq(supported_service_group, LAMBDA g : g \notin {"", None})

(***************************************************************************)
(* The UPSF store, as the client calls of the program see it.              *)
(***************************************************************************)
\* the index of the item called name in a list of items (0: none)
IndexOf(items, name) ==
    IF \E i \in DOMAIN items : items[i].name = name
    THEN CHOOSE i \in DOMAIN items : items[i].name = name
    ELSE 0

\* update_shard(**params) with list_merge_strategy "replace": a scalar that
\* params does not carry keeps its stored value, every list or map of the
\* desired state is replaced by the one of params (empty when not carried)
ApplyUpdate(shard, params) ==
    [shard EXCEPT
        !.desired_service_gateway_user_plane =
            IF "desired_service_gateway_user_plane" \in DOMAIN params
            THEN params.desired_service_gateway_user_plane ELSE @,
        !.desired_network_connection =
            IF "desired_network_connection" \in DOMAIN params
            THEN params.desired_network_connection ELSE <<>>,
        !.current_tsf_network_connection =
            IF "current_tsf_network_connection" \in DOMAIN params
            THEN params.current_tsf_network_connection ELSE EmptyMap,
        !.service_groups_supported =
            IF "service_groups_supported" \in DOMAIN params
            THEN params.service_groups_supported ELSE <<>>,
        !.prefix = params.prefix]

update_shard(stored, params) ==
    [i \in DOMAIN stored |->
        IF stored[i].name = params.name THEN ApplyUpdate(stored[i], params)
        ELSE stored[i]]

\* the shard that create_shard(**params) stores
NewShard(params) ==
    [name |-> params.name,
     prefix |-> params.prefix,
     max_session_count |-> params.max_session_count,
     desired_service_gateway_user_plane |->
        IF "desired_service_gateway_user_plane" \in DOMAIN params
        THEN params.desired_service_gateway_user_plane ELSE "",
     desired_network_connection |-> <<>>,
     current_tsf_network_connection |-> EmptyMap,
     service_groups_supported |-> <<>>]

create_shard(stored, params) ==
    IF IndexOf(stored, params.name) = 0 THEN Append(stored, NewShard(params))
    ELSE [stored EXCEPT ![IndexOf(stored, params.name)] = NewShard(params)]

(***************************************************************************)
(* map_shards: one pass of the loop body for one shard.  The result is the *)
(* entry the sweep logs for the shard: what was done (act), how the user   *)
(* plane was picked (mode), the user plane and the network connections     *)
(* computed, and the parameters of the update when one is issued.          *)
(***************************************************************************)
LogEntry(shard, act, mode, up_name, nc, tsf_nc, params) ==
    [shard |-> shard.name, act |-> act, mode |-> mode, up |-> up_name,
     nc |-> nc, tsf_nc |-> tsf_nc, params |-> params]

\* a reset loop whose update does not carry the prefix list of the shard
ResetOneShardNoPrefix(shard) ==
    IF shard.desired_service_gateway_user_plane \in {"", None}
    THEN LogEntry(shard, "continue", "-", "", <<>>, EmptyMap, EmptyMap)
    ELSE LogEntry(shard, "update", "-", "", <<>>, EmptyMap,
                  [name |-> shard.name,
                   prefix |-> <<>>,
                   list_merge_strategy |-> "replace"])

\* a reset loop without the test on the desired user plane
ResetOneShardAlways(shard) ==
    LogEntry(shard, "update", "-", "", <<>>, EmptyMap,
             [name |-> shard.name,
              prefix |-> shard.prefix,
              list_merge_strategy |-> "replace"])

\* the body of the loop "reset all shards" of the branch len(sgups) == 0
ResetOneShard(shard) ==
    IF shard.desired_service_gateway_user_plane \in {"", None}
    THEN LogEntry(shard, "continue", "-", "", <<>>, EmptyMap, EmptyMap)
    ELSE LogEntry(shard, "update", "-", "", <<>>, EmptyMap,
                  [name |-> shard.name,
                   prefix |-> shard.prefix,
                   list_merge_strategy |-> "replace"])

\* list(desired_network_connection) and ",".join(desired_network_connection):
\* the elements of the set in the iteration order of this process
SetToList(order, S) == Filter(order, S)

\* the statements from the lookup of the selected user plane to the update
MapSelected(shard, up_name, mode, fr, live_sgups, order) ==
    IF IndexOf(live_sgups, up_name) = 0
    THEN LogEntry(shard, "UpsfError", mode, up_name, <<>>, EmptyMap, EmptyMap)
    ELSE
    LET service_gateway_user_plane == live_sgups[IndexOf(live_sgups, up_name)]
        up_name_next == service_gateway_user_plane.name
        up_ep_name == service_gateway_user_plane.default_endpoint
        m == MatchNetworkConnections(fr.tsfs, fr.ncs, up_ep_name)
        desired_network_connection ==
            SetToList(order, m.desired_network_connection)
        fp_active == Fingerprint(shard.desired_service_gateway_user_plane,
                                 shard.desired_network_connection)
        fp_desired == Fingerprint(up_name_next, desired_network_connection)
    IN  IF fp_desired = Raises
        THEN LogEntry(shard, "raise", mode, up_name_next, <<>>, EmptyMap,
                      EmptyMap)
        ELSE IF fp_desired # fp_active
        THEN LogEntry(shard, "update", mode, up_name_next,
                desired_network_connection, m.tsf_network_connection,
                [name |-> shard.name,
                 desired_service_gateway_user_plane |->
                    service_gateway_user_plane.name,
                 desired_network_connection |-> desired_network_connection,
                 current_tsf_network_connection |-> m.tsf_network_connection,
                 service_groups_supported |->
                    ServiceGroupsSupported(
                        service_gateway_user_plane.supported_service_group),
                 prefix |-> shard.prefix,
                 list_merge_strategy |-> "replace"])
        ELSE LogEntry(shard, "none", mode, up_name_next,
                desired_network_connection, m.tsf_network_connection,
                EmptyMap)

\* what the statement reached when a static pin is not among up_names does
PinUnavailable(shard, static_up_name) ==
    LogEntry(shard, "return", "static", static_up_name, <<>>, EmptyMap,
             EmptyMap)

\* the user planes of a snapshot, each charged with one session for every
\* shard that the sweep has given to it so far
Charged(sgups, log) ==
    [k \in DOMAIN sgups |->
        [sgups[k] EXCEPT !.allocated_session_count =
            @ + Cardinality({j \in DOMAIN log :
                    log[j].mode = "dynamic" /\ log[j].up = sgups[k].name})]]

\* a loop body that takes the assignments of the sweep into the loads
MapOneShardCharged(shard, fr, pol, live_sgups, order) ==
    LET sg_names == Names(fr.sgs)
        up_names == Names(fr.sgups)
        up_name == shard.desired_service_gateway_user_plane
        static_up_name == get_static_shard_to_sgup_mapping(pol, shard.name)
        cands == sgup_load(Charged(fr.sgups, fr.log), sg_names)
    IN  IF Fingerprint(up_name, shard.desired_network_connection) = Raises
           \/ static_up_name = Raises
        THEN LogEntry(shard, "raise", "-", "", <<>>, EmptyMap, EmptyMap)
        ELSE IF NeedMapping(static_up_name, up_name, up_names)
        THEN IF static_up_name # None
             THEN IF ~InSeq(static_up_name, up_names)
                  THEN PinUnavailable(shard, static_up_name)
                  ELSE MapSelected(shard, static_up_name, "static", fr,
                                   live_sgups, order)
             ELSE IF Len(cands) = 0
                  THEN LogEntry(shard, "continue", "dynamic", "", <<>>,
                                EmptyMap, EmptyMap)
                  ELSE MapSelected(shard, LeastLoaded(cands), "dynamic", fr,
                                   live_sgups, order)
        ELSE MapSelected(shard, up_name, "retain", fr, live_sgups, order)

\* the body of the loop "map shards to service gateway user planes"
MapOneShard(shard, fr, pol, live_sgups, order) ==
    LET sg_names == Names(fr.sgs)
        up_names == Names(fr.sgups)
        up_name == shard.desired_service_gateway_user_plane
        static_up_name == get_static_shard_to_sgup_mapping(pol, shard.name)
        cands == sgup_load(fr.sgups, sg_names)
    IN  IF Fingerprint(up_name, shard.desired_network_connection) = Raises
           \/ static_up_name = Raises
        THEN LogEntry(shard, "raise", "-", "", <<>>, EmptyMap, EmptyMap)
        ELSE IF NeedMapping(static_up_name, up_name, up_names)
        THEN IF static_up_name # None
             THEN IF ~InSeq(static_up_name, up_names)
                  THEN PinUnavailable(shard, static_up_name)
                  ELSE MapSelected(shard, static_up_name, "static", fr,
                                   live_sgups, order)
             ELSE IF Len(cands) = 0
                  THEN LogEntry(shard, "continue", "dynamic", "", <<>>,
                                EmptyMap, EmptyMap)
                  ELSE MapSelected(shard, LeastLoaded(cands), "dynamic", fr,
                                   live_sgups, order)
        ELSE MapSelected(shard, up_name, "retain", fr, live_sgups, order)

(***************************************************************************)
(* create_default_items.  ipaddress is modelled by a table over the        *)
(* prefixes and addresses that the policies of the model use.              *)
(***************************************************************************)
\* ipaddress.ip_network(prefix).hosts(), for the prefixes that parse
NetworkHosts ==
    [p \in {"10.0.0.0/30", "10.0.1.0/31"} |->
        IF p = "10.0.0.0/30" THEN {"10.0.0.1", "10.0.0.2"}
        ELSE {"10.0.1.0", "10.0.1.1"}]

\* the strings ipaddress.ip_address accepts
IpAddresses == {"10.0.0.1", "10.0.0.2", "10.0.1.0", "10.0.1.1", "10.0.9.9"}

\* the loop "for all ip prefixes": the sum of len(hosts); a prefix whose try
\* block raises ValueError adds nothing
RECURSIVE CountSessions(_, _)
CountSessions(prefixes, exclude) ==
    IF Len(prefixes) = 0 THEN 0
    ELSE LET prefix == Head(prefixes)
             raises == \/ \E k \in DOMAIN exclude : exclude[k] \notin IpAddresses
                       \/ prefix \notin DOMAIN NetworkHosts
             hosts == NetworkHosts[prefix] \ Range(exclude)
         IN (IF raises THEN 0 ELSE Cardinality(hosts))
                + CountSessions(Tail(prefixes), exclude)

\* the parameters of create_shard for an entry; up is None when the shard is
\* created without desired user plane
CreateParams(entry, up) ==
    LET base == [name |-> entry.name,
                 max_session_count |->
                    CountSessions(entry.prefixes,
                        IF "exclude" \in entry.keys THEN entry.exclude
                        ELSE <<>>),
                 prefix |-> entry.prefixes]
    IN  IF up = None THEN base
        ELSE [name |-> base.name,
              max_session_count |-> base.max_session_count,
              prefix |-> base.prefix,
              desired_service_gateway_user_plane |-> up]

\* "ignore existing shards": the entry names a shard of the dict read at the
\* start of the invocation
AlreadyStoredNever(entry, existing) == FALSE

AlreadyStored(entry, existing) == entry.name \in existing

\* "desired_sgup not in sgups" is false: the pin is a user plane of the store
PinAvailableAlways(desired_sgup, live) == TRUE

PinAvailable(desired_sgup, live) == InSeq(desired_sgup, live)

\* "populate list of sgup names from UPSF": runs for every entry that is
\* reached with an empty list
Refill(sgup_names, live) == IF Len(sgup_names) = 0 THEN live ELSE sgup_names

\* the result of one pass of the loop over the entries of the policy: what
\* is done for the entry, the list the dynamic mapping pops from after the
\* pass, and the parameters of create_shard when it is called
PassResult(act, sgup_names, params) ==
    [act |-> act, sgup_names |-> sgup_names, params |-> params]

\* one pass of the loop up to the statement "static mapping to specific sgup
\* requested?": existing is the set of shard names read before the loop, live
\* the names list_service_gateway_user_planes returns for "populate list of
\* sgup names", sgup_names the list the dynamic mapping pops from; an entry
\* with a pin goes on to the second list call ("pin")
EntryTop(entry, existing, live, sgup_names) ==
    LET filled == Refill(sgup_names, live)
        desired_sgup == IF "serviceGatewayUserPlane" \in entry.keys
                        THEN entry.serviceGatewayUserPlane ELSE None
    IN  IF ~({"name", "prefixes"} \subseteq entry.keys)
        THEN PassResult("skip", sgup_names, EmptyMap)
        ELSE IF AlreadyStored(entry, existing)
        THEN PassResult("skip", sgup_names, EmptyMap)
        ELSE IF desired_sgup # None
        THEN PassResult("pin", filled, EmptyMap)
        ELSE IF Len(filled) > 0
        THEN PassResult("create", Tail(filled),
                        CreateParams(entry, Head(filled)))
        ELSE PassResult("create", filled, CreateParams(entry, None))

\* the rest of the pass for an entry with a pin: live is the list of names
\* the second list_service_gateway_user_planes call returns
EntryPinned(entry, live, sgup_names) ==
    IF ~PinAvailable(entry.serviceGatewayUserPlane, live)
    THEN PassResult("skip", sgup_names, EmptyMap)
    ELSE PassResult("create", sgup_names,
                    CreateParams(entry, entry.serviceGatewayUserPlane))

\* the entries left after the passes that end before any call of the store:
\* those for the entries that lack a key or name a shard of existing
RECURSIVE SkipLocal(_, _)
SkipLocal(entries, existing) ==
    IF Len(entries) = 0 THEN entries
    ELSE IF EntryTop(Head(entries), existing, <<>>, <<"-">>).act = "skip"
    THEN SkipLocal(Tail(entries), existing)
    ELSE entries

\* one pass of the loop on a store that does not change during the pass
EntryPass(entry, existing, live, sgup_names) ==
    LET top == EntryTop(entry, existing, live, sgup_names) IN
    IF top.act = "pin" THEN EntryPinned(entry, live, top.sgup_names) ELSE top

\* the loop over the entries of the policy on a store that does not change
\* during the loop; the result is the list of the create_shard calls
RECURSIVE CreateLoop(_, _, _, _, _)
CreateLoop(entries, existing, live, sgup_names, calls) ==
    IF Len(entries) = 0 THEN calls
    ELSE LET pass == EntryPass(Head(entries), existing, live, sgup_names) IN
         CreateLoop(Tail(entries), existing, live, pass.sgup_names,
                    IF pass.act = "create" THEN Append(calls, pass.params)
                    ELSE calls)

\* what the two sanity checks, the load of the policy file and the lookup
\* config.get lead to: the return without a pass, the loader error or the
\* AttributeError of None.get, or the loop
Entered(pol, live_sgups) ==
    IF ~pol.exists THEN "return"
    ELSE IF Len(live_sgups) = 0 THEN "return"
    ELSE IF ~pol.valid \/ pol.empty THEN "raise"
    ELSE "loop"

\* the create_shard calls of one create_default_items on a store that does
\* not change during the invocation
create_default_items(pol, live_sgups, stored) ==
    IF Entered(pol, live_sgups) # "loop" THEN <<>>
    ELSE CreateLoop(pol.shards, Range(Names(stored)), Names(live_sgups),
                    <<>>, <<>>)

(***************************************************************************)
(* State.                                                                  *)
(***************************************************************************)
VARIABLES
    sgs,            \* store: the service gateways
    sgups,          \* store: the service gateway user planes
    tsfs,           \* store: the traffic steering functions
    ncs,            \* store: the network connections
    shards,         \* store: the shards
    policy,         \* the policy file (config_file)
    auto_register,  \* str2bool(upsf_auto_register)
    order,          \* iteration order of a set of strings in this process
    others,         \* the kinds of changes that other clients of the store
                    \* make while the program runs
    events,         \* named items the watch stream holds for the watch thread
    blanks,         \* items without a name the watch stream holds
    stop_thread,    \* self._stop_thread is set
    pc,             \* position of the main, watch and register threads and
                    \* of the caller of stop()
    sw,             \* the map_shards call of each thread that can make one
    envLeft,        \* changes that may still come from outside
    ticksLeft,      \* periodic ticks that may still run to their end
    streamLeft,     \* incidents that may still come on the watch stream
    faultsLeft,     \* create_default_items calls that may still fail
    cd,             \* the create_default_items call in progress, if any
    lastClean,      \* a sweep has ended and the store was changed by no one
                    \* else since that sweep began
    mat,            \* history: the last create_default_items invocation
    taken           \* history: what the watch loop did with the items it took

vars == <<sgs, sgups, tsfs, ncs, shards, policy, auto_register, order,
          others, events, blanks, stop_thread, pc, sw, envLeft, ticksLeft, streamLeft,
          faultsLeft, cd, lastClean, mat, taken>>

store == <<sgs, sgups, tsfs, ncs, shards>>
config == <<policy, auto_register, order, others>>
budget == <<envLeft, ticksLeft, streamLeft, faultsLeft>>

\* the threads that call map_shards
Sweepers == {"main", "watch"}

\* a map_shards call that is not in progress
IdleFrame ==
    [stage |-> "idle", outcome |-> "", sgs |-> <<>>, sgups |-> <<>>,
     shards |-> <<>>, tsfs |-> <<>>, ncs |-> <<>>, i |-> 0, log |-> <<>>,
     pending |-> EmptyMap, after |-> FALSE, pure |-> FALSE]

\* no create_default_items invocation so far
NoInvocation ==
    [n |-> 0, who |-> "", existing |-> {}, live |-> <<>>, calls |-> <<>>,
     prev |-> <<>>, prev_live |-> <<>>, env0 |-> 0, prev_env0 |-> 0,
     kept |-> TRUE, after_stop |-> FALSE, raised |-> FALSE,
     prev_raised |-> FALSE, retry |-> FALSE]

\* a create_default_items call that is not in progress
IdleInvocation ==
    [stage |-> "idle", who |-> "", existing |-> {}, entries |-> <<>>,
     sgup_names |-> <<>>, params |-> EmptyMap]

\* the threads that call create_default_items
Materializers == {"main", "register"}

\* the watch loop has taken no item so far
NothingTaken ==
    [unswept |-> 0, extra |-> 0, skipped |-> FALSE, failed |-> FALSE,
     resumed |-> FALSE]

\* a main thread that starts the watch thread before the startup sweep
MainProgramStartFirst ==
    <<"create_default_items", "register", "start", "map_shards", "sleep">>

\* the calls of the main thread, in program order: ShardManager(**kwargs),
\* which is initialize(), then shardmgr.start(), then the sleep loop
MainProgram ==
    <<"create_default_items", "register", "map_shards", "start", "sleep">>

\* pc.main of a process that has ended with an exception of the main thread
Crashed == 0

MainAt(instr) == pc.main \in DOMAIN MainProgram /\ MainProgram[pc.main] = instr

\* the watch stream is open
Subscribed == pc.watch \in {"read", "map_shards"}

\* n items more on the watch stream
Notify(n) == IF Subscribed THEN Min2(events + n, MaxEvents) ELSE events

\* the history fields of the calls in progress after a change of the store
\* that is not a write of a sweep
Disturbed ==
    [t \in Sweepers |->
        IF sw[t].stage = "idle" THEN sw[t]
        ELSE [sw[t] EXCEPT !.after = FALSE, !.pure = FALSE]]

(***************************************************************************)
(* create_default_items, called by initialize() and by the periodic task   *)
(* (upsf_register_task: the sleep ends and create_default_items runs; the  *)
(* loop is "while True").  No lock is held, so the threads and the other   *)
(* clients of the store interleave between any two calls of the store: a   *)
(* step of a call is one call of the store with the statements that follow *)
(* it up to the next call of the store.  The stage of the call names the   *)
(* call of the store it makes next: "shards" (list_shards), "refill" (the  *)
(* list call of "populate list of sgup names"), "pin" (the list call of    *)
(* the static mapping), "create" (create_shard).                           *)
(***************************************************************************)
\* threads that an exception ends
AfterRaiseDies(t, at) ==
    IF t = "main" THEN [at EXCEPT !.main = Crashed, !.register = "dead"]
    ELSE [at EXCEPT ![t] = "dead"]

\* where a thread is after an exception has left create_default_items or
\* map_shards: upsf_register_task suppresses it and sleeps again, run()
\* suppresses it in the loop over the items, and in the main thread it ends
\* initialize() and with it the process
AfterRaise(t, at) ==
    IF t = "main" THEN [at EXCEPT !.main = Crashed, !.register = "dead"]
    ELSE at

\* how a step leaves the call of thread t: it "runs" on, it returns to the
\* caller ("return") or an exception leaves it ("raise")
Leave(t, how) ==
    /\ pc' = IF how = "raise" THEN AfterRaise(t, pc)
             ELSE IF how = "return" /\ t = "main"
             THEN [pc EXCEPT !.main = @ + 1]
             ELSE pc
    /\ ticksLeft' = IF how = "return" /\ t = "register" THEN ticksLeft - 1
                    ELSE ticksLeft

\* thread t is at a call of create_default_items
AtCreateDefaultItems(t) ==
    IF t = "main" THEN MainAt("create_default_items")
    ELSE pc.register = "sleep"
            /\ (IF Entered(policy, sgups) = "raise" THEN faultsLeft > 0
                ELSE ticksLeft > 0)

\* the call after "populate list of sgup names" in the pass for the first of
\* entries, whose result up to the test of the pin is pass
Selected(frame, entries, pass) ==
    [frame EXCEPT !.stage = pass.act, !.entries = entries,
                  !.sgup_names = pass.sgup_names, !.params = pass.params]

\* the call from the start of the pass for the first of entries to the next
\* call of the store: the passes that make no call are run, and the test
\* len(sgup_names) == 0 of the next one; IdleInvocation when the loop ends
Advance(frame, entries, sgup_names) ==
    LET rest == SkipLocal(entries, frame.existing) IN
    IF Len(rest) = 0 THEN IdleInvocation
    ELSE IF Len(sgup_names) = 0
    THEN [frame EXCEPT !.stage = "refill", !.entries = rest,
                       !.sgup_names = sgup_names, !.params = EmptyMap]
    ELSE Selected(frame, rest,
                  EntryTop(Head(rest), frame.existing, <<>>, sgup_names))

\* the sanity check of the configuration file and the list call of the
\* sanity check of the user planes
CreateDefaultItemsBegin(t) ==
    /\ cd.stage = "idle"
    /\ AtCreateDefaultItems(t)
    /\ LET how == IF policy.exists /\ Len(sgups) > 0 THEN "runs"
                  ELSE "return"
       IN /\ cd' = IF how = "runs"
                   THEN [IdleInvocation EXCEPT !.stage = "shards", !.who = t]
                   ELSE IdleInvocation
          /\ mat' = [n |-> mat.n + 1,
                     who |-> t,
                     existing |-> Range(Names(shards)),
                     live |-> Names(sgups),
                     calls |-> <<>>,
                     prev |-> mat.calls,
                     prev_live |-> mat.live,
                     env0 |-> envLeft,
                     prev_env0 |-> mat.env0,
                     kept |-> TRUE,
                     after_stop |-> stop_thread,
                     raised |-> FALSE,
                     prev_raised |-> mat.raised,
                     retry |-> t = "register" /\ mat.who = "register"
                                    /\ mat.raised]
          /\ Leave(t, how)
    /\ UNCHANGED <<store, config, events, blanks, stop_thread, sw, envLeft,
                   streamLeft, faultsLeft, lastClean, taken>>

\* list_shards, the load of the policy file, config.get and the passes of
\* the loop up to the first call of the store
CreateDefaultItemsListShards ==
    /\ cd.stage = "shards"
    /\ LET raises == ~policy.valid \/ policy.empty
           frame == [cd EXCEPT !.existing = Range(Names(shards))]
           next == IF raises THEN IdleInvocation
                   ELSE Advance(frame, policy.shards, <<>>)
       IN /\ cd' = next
          /\ mat' = [mat EXCEPT !.existing = frame.existing,
                                !.raised = raises]
          /\ faultsLeft' = IF raises /\ cd.who = "register"
                           THEN faultsLeft - 1 ELSE faultsLeft
          /\ Leave(cd.who, IF raises THEN "raise"
                           ELSE IF next.stage = "idle" THEN "return"
                           ELSE "runs")
    /\ UNCHANGED <<store, config, events, blanks, stop_thread, sw, envLeft,
                   streamLeft, lastClean, taken>>

\* "populate list of sgup names from UPSF": the list call, and the pass up to
\* the list call of an entry with a pin or to create_shard
CreateDefaultItemsEntry ==
    /\ cd.stage = "refill"
    /\ cd' = Selected(cd, cd.entries,
                      EntryTop(Head(cd.entries), cd.existing, Names(sgups),
                               cd.sgup_names))
    /\ UNCHANGED <<store, config, events, blanks, stop_thread, sw, budget,
                   pc, lastClean, mat, taken>>

\* the list call of the static mapping and the test of the pin: the pass
\* ends (continue) or goes on to create_shard
CreateDefaultItemsPinned ==
    /\ cd.stage = "pin"
    /\ LET pass == EntryPinned(Head(cd.entries), Names(sgups), cd.sgup_names)
           next == IF pass.act = "create"
                   THEN [cd EXCEPT !.stage = "create", !.params = pass.params]
                   ELSE Advance(cd, Tail(cd.entries), cd.sgup_names)
       IN /\ cd' = next
          /\ Leave(cd.who, IF next.stage = "idle" THEN "return" ELSE "runs")
    /\ UNCHANGED <<store, config, events, blanks, stop_thread, sw, envLeft,
                   streamLeft, faultsLeft, lastClean, mat, taken>>

\* create_shard(**params), and the passes up to the next call of the store
CreateDefaultItemsCreate ==
    /\ cd.stage = "create"
    /\ LET stored == create_shard(shards, cd.params)
           next == Advance(cd, Tail(cd.entries), cd.sgup_names)
       IN /\ shards' = stored
          /\ events' = Notify(1)
          /\ sw' = Disturbed
          /\ lastClean' = FALSE
          /\ mat' = [mat EXCEPT
                !.calls = Append(@, cd.params),
                !.kept = @ /\ \A i \in DOMAIN shards :
                                  shards[i].name \in cd.existing
                                      => stored[i] = shards[i]]
          /\ cd' = next
          /\ Leave(cd.who, IF next.stage = "idle" THEN "return" ELSE "runs")
    /\ UNCHANGED <<sgs, sgups, tsfs, ncs, config, blanks, stop_thread,
                   envLeft, streamLeft, faultsLeft, taken>>

\* the store fails a call of the loop: UpsfError leaves create_default_items
StoreFault ==
    /\ cd.stage \in {"shards", "refill", "pin", "create"}
    /\ faultsLeft > 0
    /\ faultsLeft' = faultsLeft - 1
    /\ cd' = IdleInvocation
    /\ mat' = [mat EXCEPT !.raised = TRUE]
    /\ Leave(cd.who, "raise")
    /\ UNCHANGED <<store, config, events, blanks, stop_thread, sw, envLeft,
                   streamLeft, lastClean, taken>>

\* initialize(): the periodic task is started when auto registration is on
MainRegister ==
    /\ MainAt("register")
    /\ pc' = [pc EXCEPT !.main = @ + 1,
                        !.register = IF auto_register THEN "sleep" ELSE @]
    /\ UNCHANGED <<store, config, events, blanks, stop_thread, sw, budget,
                   lastClean, cd, mat, taken>>

\* main(): shardmgr.start()
MainStart ==
    /\ MainAt("start")
    /\ pc.watch = "unstarted"
    /\ pc' = [pc EXCEPT !.main = @ + 1, !.watch = "subscribe"]
    /\ UNCHANGED <<store, config, events, blanks, stop_thread, sw, budget,
                   lastClean, cd, mat, taken>>

(***************************************************************************)
(* The items of the watch stream.  An item is modelled by the names of its *)
(* four members that run() looks at; a member that is not set has the      *)
(* name "".                                                                *)
(***************************************************************************)
ItemKinds ==
    {"service_gateway_user_plane", "traffic_steering_function",
     "network_connection", "shard"}

Item(kind, name) ==
    [k \in ItemKinds |-> IF k = kind THEN name ELSE ""]

\* an if / elif chain that calls map_shards whatever the item holds
DispatchAlways(item) == TRUE

\* the if / elif chain of run(): is map_shards called for the item
Dispatch(item) ==
    IF item.service_gateway_user_plane \notin {""} THEN TRUE
    ELSE IF item.traffic_steering_function \notin {""} THEN TRUE
    ELSE IF item.network_connection \notin {""} THEN TRUE
    ELSE IF item.shard \notin {""} THEN TRUE
    ELSE FALSE

\* the item has a name in one of the four kinds
Named(item) == \E kind \in ItemKinds : item[kind] # ""

\* the items the stream can yield next
Pending ==
    (IF events > 0 THEN {Item(kind, "x") : kind \in ItemKinds} ELSE {})
        \cup (IF blanks > 0 THEN {Item("shard", "")} ELSE {})

\* the stream has yielded item
Yield(item) ==
    IF Named(item) THEN events' = events - 1 /\ blanks' = blanks
    ELSE blanks' = blanks - 1 /\ events' = events

\* where the watch thread goes after the body of the for loop: the test
\* "if self._stop_thread.is_set(): break" and then the test of the while
AfterItem == IF stop_thread THEN "exited" ELSE "read"

(***************************************************************************)
(* map_shards.                                                             *)
(***************************************************************************)
\* thread t is at a call of map_shards
AtMapShards(t) ==
    IF t = "main" THEN MainAt("map_shards")
    ELSE pc.watch = "map_shards"

\* map_shards is entered and makes its first call of the store,
\* list_service_gateways.  Each further call of the store is a step of its
\* own: the stage of the sweep names the list it reads next ("sgups",
\* "shards", "tsfs", "ncs"), the loop it is in ("reset", "map"), the
\* update_shard it is about to make ("write") or shard_dump ("dump")
MapShardsBegin(t) ==
    /\ AtMapShards(t)
    /\ sw[t].stage = "idle"
    /\ sw' = [sw EXCEPT ![t] =
            [IdleFrame EXCEPT !.stage = "sgups", !.sgs = sgs, !.i = 1,
                              !.after = lastClean, !.pure = TRUE]]
    /\ UNCHANGED <<store, config, pc, budget, events, blanks, stop_thread,
                   lastClean, cd, mat, taken>>

\* one of the list calls that follow: list_service_gateway_user_planes,
\* list_shards with the test len(sgups) == 0 after it, and in the other
\* branch list_traffic_steering_functions and list_network_connections
MapShardsRead(t) ==
    /\ sw[t].stage \in {"sgups", "shards", "tsfs", "ncs"}
    /\ LET fr == sw[t]
           loop == IF Len(fr.sgups) = 0 THEN "reset" ELSE "map"
       IN sw' = [sw EXCEPT ![t] =
            IF fr.stage = "sgups"
            THEN [fr EXCEPT !.sgups = sgups, !.stage = "shards"]
            ELSE IF fr.stage = "shards"
            THEN [fr EXCEPT !.shards = shards,
                     !.stage = IF Len(fr.sgups) > 0 THEN "tsfs"
                               ELSE IF Len(shards) = 0 THEN "done"
                               ELSE "reset",
                     !.outcome = IF Len(fr.sgups) = 0 /\ Len(shards) = 0
                                 THEN "completed" ELSE @]
            ELSE IF fr.stage = "tsfs"
            THEN [fr EXCEPT !.tsfs = tsfs, !.stage = "ncs"]
            ELSE [fr EXCEPT !.ncs = ncs,
                     !.stage = IF Len(fr.shards) = 0 THEN "dump" ELSE loop,
                     !.outcome = IF Len(fr.shards) = 0 THEN "completed"
                                 ELSE @]]
    /\ UNCHANGED <<store, config, pc, budget, events, blanks, stop_thread,
                   lastClean, cd, mat, taken>>

\* the sweep after the pass that entry records
AfterPass(fr, entry) ==
    LET ends == entry.act \in {"return", "UpsfError", "raise"}
                \/ fr.i = Len(fr.shards)
    IN  [fr EXCEPT !.log = Append(@, entry),
                   !.i = @ + 1,
                   !.pending = EmptyMap,
                   !.stage = IF entry.act \in {"return", "UpsfError", "raise"}
                                \/ (ends /\ @ = "reset")
                             THEN "done"
                             ELSE IF ends THEN "dump"
                             ELSE IF @ = "write" THEN "map" ELSE @,
                   !.outcome = IF entry.act = "return" THEN "returned"
                               ELSE IF entry.act = "UpsfError" THEN "error"
                               ELSE IF entry.act = "raise" THEN "raised"
                               ELSE IF ends THEN "completed" ELSE @]

\* one pass of the loop over the shards of the snapshot, up to and with its
\* first call of the store: in the reset loop the update_shard, in the other
\* loop get_service_gateway_user_plane and the statements up to update_shard
MapShardsStep(t) ==
    /\ sw[t].stage \in {"reset", "map"}
    /\ LET fr == sw[t]
           shard == fr.shards[fr.i]
           entry == IF fr.stage = "reset" THEN ResetOneShard(shard)
                    ELSE MapOneShard(shard, fr, policy, sgups, order)
       IN IF fr.stage = "map" /\ entry.act = "update"
          THEN /\ sw' = [sw EXCEPT ![t] =
                        [fr EXCEPT !.stage = "write", !.pending = entry]]
               /\ UNCHANGED <<shards, events>>
          ELSE /\ shards' = IF entry.act = "update"
                            THEN update_shard(shards, entry.params)
                            ELSE shards
               /\ events' = IF entry.act = "update" THEN Notify(1)
                            ELSE events
               /\ sw' = [sw EXCEPT ![t] = AfterPass(fr, entry)]
    /\ UNCHANGED <<sgs, sgups, tsfs, ncs, config, pc, budget, blanks,
                   stop_thread, lastClean, cd, mat, taken>>

\* update_shard(**params) of the loop "map shards to service gateway user
\* planes", and the end of the pass
MapShardsWrite(t) ==
    /\ sw[t].stage = "write"
    /\ shards' = update_shard(shards, sw[t].pending.params)
    /\ events' = Notify(1)
    /\ sw' = [sw EXCEPT ![t] = AfterPass(sw[t], sw[t].pending)]
    /\ UNCHANGED <<sgs, sgups, tsfs, ncs, config, pc, budget, blanks,
                   stop_thread, lastClean, cd, mat, taken>>

\* shard_dump() after the loop "map shards to service gateway user planes":
\* its list_shards, whose result is logged
MapShardsDump(t) ==
    /\ sw[t].stage = "dump"
    /\ sw' = [sw EXCEPT ![t].stage = "done"]
    /\ UNCHANGED <<store, config, pc, budget, events, blanks, stop_thread,
                   lastClean, cd, mat, taken>>

\* map_shards returns to its caller
MapShardsEnd(t) ==
    /\ sw[t].stage = "done"
    /\ sw' = [sw EXCEPT ![t] = IdleFrame]
    /\ lastClean' = (sw[t].pure /\ sw[t].outcome \notin {"error", "raised"})
    /\ IF t = "main"
       THEN /\ pc' = IF sw[t].outcome = "raised" THEN AfterRaise(t, pc)
                     ELSE [pc EXCEPT !.main = @ + 1]
            /\ cd' = IF sw[t].outcome = "raised" THEN IdleInvocation ELSE cd
            /\ UNCHANGED taken
       ELSE /\ pc' = [pc EXCEPT !.watch = AfterItem]
            /\ taken' = [taken EXCEPT !.failed = (sw[t].outcome = "error")]
            /\ UNCHANGED cd
    /\ UNCHANGED <<store, config, events, blanks, stop_thread, budget, mat>>

(***************************************************************************)
(* run(): the watch thread.                                                *)
(***************************************************************************)
\* the number of items of the four watched kinds
WatchedItems == Len(sgups) + Len(tsfs) + Len(ncs) + Len(shards)

\* the test of the while loop and upsf_subscriber.read(itemtypes=[...],
\* watch=True): the stream opens; the store may first send the items it
\* holds
WatchSubscribe ==
    /\ pc.watch = "subscribe"
    /\ IF stop_thread
       THEN /\ pc' = [pc EXCEPT !.watch = "exited"]
            /\ UNCHANGED events
       ELSE /\ pc' = [pc EXCEPT !.watch = "read"]
            /\ \E n \in {0, Min2(WatchedItems, MaxEvents)} : events' = n
    /\ UNCHANGED <<store, config, blanks, stop_thread, sw, budget, lastClean,
                   cd, mat, taken>>

\* the stream yields an item for which a branch of the chain calls
\* map_shards: the thread enters map_shards, whose first call of the store
\* is a later step
WatchDispatchItem ==
    /\ pc.watch = "read"
    /\ \E item \in Pending :
          /\ Dispatch(item)
          /\ Yield(item)
          /\ taken' = [taken EXCEPT
                !.extra = IF Named(item) THEN @ ELSE @ + 1,
                !.resumed = @ \/ taken.failed]
    /\ pc' = [pc EXCEPT !.watch = "map_shards"]
    /\ UNCHANGED <<store, config, stop_thread, sw, budget, lastClean, cd, mat>>

\* the body of the for loop for an item for which no branch of the chain
\* calls map_shards
WatchSkipItem ==
    /\ pc.watch = "read"
    /\ \E item \in Pending :
          /\ ~Dispatch(item)
          /\ Yield(item)
          /\ taken' = [taken EXCEPT
                !.skipped = TRUE,
                !.unswept = IF Named(item) THEN @ + 1 ELSE @]
    /\ pc' = [pc EXCEPT !.watch = AfterItem]
    /\ UNCHANGED <<store, config, stop_thread, sw, budget, lastClean, cd, mat>>

\* where the watch thread goes when the for loop is left because the stream
\* ended ("end"), raised UpsfError or raised another Exception: only the
\* handler of UpsfError sleeps, contextlib.suppress(Exception) does not
AfterStream(how) == IF how = "UpsfError" THEN "backoff" ELSE "subscribe"

\* the ways a stream closes
StreamClosings == {"end", "UpsfError", "Exception"}

\* the stream closes while the watch thread waits for the next item; a
\* stream that ends has yielded all its items, one that fails loses them
StreamCloses ==
    /\ pc.watch = "read"
    /\ streamLeft > 0
    /\ streamLeft' = streamLeft - 1
    /\ \E how \in StreamClosings :
          /\ how = "end" => (events = 0 /\ blanks = 0)
          /\ pc' = [pc EXCEPT !.watch = AfterStream(how)]
    /\ events' = 0
    /\ blanks' = 0
    /\ UNCHANGED <<store, config, stop_thread, sw, envLeft, ticksLeft, faultsLeft,
                   lastClean, cd, mat, taken>>

\* time.sleep(1) of the handler of UpsfError returns
WatchBackoff ==
    /\ pc.watch = "backoff"
    /\ pc' = [pc EXCEPT !.watch = "subscribe"]
    /\ UNCHANGED <<store, config, events, blanks, stop_thread, sw, budget,
                   lastClean, cd, mat, taken>>

\* the store sends an item that has no name in any of the four kinds
StreamUnnamedItem ==
    /\ Subscribed
    /\ streamLeft > 0
    /\ streamLeft' = streamLeft - 1
    /\ blanks' = Min2(blanks + 1, MaxEvents)
    /\ UNCHANGED <<store, config, events, stop_thread, pc, sw, envLeft,
                   ticksLeft, faultsLeft, lastClean, cd, mat, taken>>

(***************************************************************************)
(* stop(), called by a thread other than the watch thread once the watch   *)
(* thread is started.                                                      *)
(***************************************************************************)
\* self._stop_thread.set()
Stop ==
    /\ pc.stop = "idle"
    /\ pc.watch # "unstarted"
    /\ stop_thread' = TRUE
    /\ pc' = [pc EXCEPT !.stop = "join"]
    /\ UNCHANGED <<store, config, events, blanks, sw, budget, lastClean, cd, mat,
                   taken>>

\* self.join() returns: the watch thread has left run()
StopJoin ==
    /\ pc.stop = "join"
    /\ pc.watch = "exited"
    /\ pc' = [pc EXCEPT !.stop = "returned"]
    /\ UNCHANGED <<store, config, events, blanks, stop_thread, sw, budget,
                   lastClean, cd, mat, taken>>

(***************************************************************************)
(* Changes of the store made by others.                                    *)
(***************************************************************************)
\* the list without its k-th item
RemoveAt(items, k) ==
    [j \in 1..(Len(items) - 1) |-> IF j < k THEN items[j] ELSE items[j + 1]]

EnvChange ==
    /\ envLeft > 0
    /\ envLeft' = envLeft - 1
    /\ events' = Notify(1)
    /\ sw' = Disturbed
    /\ lastClean' = FALSE
    /\ UNCHANGED <<sgs, shards, config, pc, ticksLeft, faultsLeft, streamLeft, blanks,
                   stop_thread, cd, mat, taken>>

\* a user plane is deleted
EnvRemoveSgup ==
    /\ EnvChange
    /\ "delete user plane" \in others
    /\ \E k \in DOMAIN sgups : sgups' = RemoveAt(sgups, k)
    /\ UNCHANGED <<tsfs, ncs>>

\* a network connection is deleted
EnvRemoveNc ==
    /\ EnvChange
    /\ "delete network connection" \in others
    /\ \E k \in DOMAIN ncs : ncs' = RemoveAt(ncs, k)
    /\ UNCHANGED <<sgups, tsfs>>

(***************************************************************************)
(* Initial states: the stores, policies and configurations the model       *)
(* starts the program on.                                                  *)
(***************************************************************************)
Sgup(name, profile) ==
    [name |-> name,
     service_gateway_name |-> profile[1],
     max_session_count |-> profile[2],
     allocated_session_count |-> profile[3],
     default_endpoint |-> "ep-" \o name,
     supported_service_group |-> <<"grp", "">>]

Tsf(name) == [name |-> name, default_endpoint |-> "ep-" \o name]

Shard(name, up, nc) ==
    [name |-> name,
     prefix |-> <<"10.0.0.0/30">>,
     max_session_count |-> 2,
     desired_service_gateway_user_plane |-> up,
     desired_network_connection |-> nc,
     current_tsf_network_connection |-> EmptyMap,
     service_groups_supported |-> <<>>]

\* a policy entry with the keys given
EntryWith(keys, name, pin, prefixes, exclude) ==
    [keys |-> keys,
     name |-> name,
     prefixes |-> prefixes,
     exclude |-> exclude,
     serviceGatewayUserPlane |-> pin]

\* a policy entry with name and prefixes, pinned to pin unless pin is None
Entry(name, pin) ==
    [keys |-> {"name", "prefixes"}
                \cup (IF pin = None THEN {} ELSE {"serviceGatewayUserPlane"}),
     name |-> name,
     prefixes |-> <<"10.0.0.0/30">>,
     exclude |-> <<>>,
     serviceGatewayUserPlane |-> pin]

Policy(entries) ==
    [exists |-> TRUE, valid |-> TRUE, empty |-> FALSE, shards |-> entries]

\* no file at the path config_file
NoPolicy ==
    [exists |-> FALSE, valid |-> TRUE, empty |-> FALSE, shards |-> <<>>]

\* a file that the loader rejects
MalformedPolicy ==
    [exists |-> TRUE, valid |-> FALSE, empty |-> FALSE, shards |-> <<>>]

\* a file without a document (no bytes, or comments only): yaml.load returns
\* None
EmptyPolicy ==
    [exists |-> TRUE, valid |-> TRUE, empty |-> TRUE, shards |-> <<>>]

\* a network connection of the topology kind, reported with the tag which;
\* the members of the oneof that are not set hold their default values
Nc(name, kind, which, tsf_endpoint, sgup_endpoint) ==
    [name |-> name,
     which |-> which,
     ss_ptp |-> IF kind = "ss_ptp"
                THEN [tsf_endpoint |-> tsf_endpoint,
                      sgup_endpoint |-> sgup_endpoint]
                ELSE [tsf_endpoint |-> "", sgup_endpoint |-> <<>>],
     ss_mptp |-> IF kind = "ss_mptp"
                 THEN [tsf_endpoint |-> tsf_endpoint,
                       sgup_endpoint |-> sgup_endpoint]
                 ELSE [tsf_endpoint |-> <<>>, sgup_endpoint |-> <<>>],
     ms_ptp |-> IF kind = "ms_ptp"
                THEN [tsf_endpoint |-> tsf_endpoint,
                      sgup_endpoint |-> sgup_endpoint]
                ELSE [tsf_endpoint |-> "", sgup_endpoint |-> ""],
     ms_mptp |-> IF kind = "ms_mptp"
                 THEN [tsf_endpoint |-> tsf_endpoint,
                       sgup_endpoint |-> sgup_endpoint]
                 ELSE [tsf_endpoint |-> <<>>, sgup_endpoint |-> ""]]

\* the two spellings of the tag of each topology
TagsOf ==
    [kind \in {"ss_ptp", "ss_mptp", "ms_ptp", "ms_mptp"} |->
        IF kind = "ss_ptp" THEN {"SsPtpSpec", "ss_ptp"}
        ELSE IF kind = "ss_mptp" THEN {"SsMptpSpec", "ss_mptp"}
        ELSE IF kind = "ms_ptp" THEN {"MsPtpSpec", "ms_ptp"}
        ELSE {"MsMptpSpec", "ms_mptp"}]

Kinds == DOMAIN TagsOf

\* the topology a tag stands for
KindOfTag(tag) == CHOOSE kind \in Kinds : tag \in TagsOf[kind]

\* the endpoints of the network connections of the model, by topology
TsfEndpointsOf(kind) ==
    IF kind \in {"ss_ptp", "ms_ptp"} THEN {"ep-t1", "ep-x"}
    ELSE {<<"ep-x", "ep-t2">>, <<"ep-x">>}

SgupEndpointsOf(kind) ==
    IF kind \in {"ms_ptp", "ms_mptp"} THEN {"ep-uA", "ep-uB"}
    ELSE {<<"ep-uB", "ep-uA">>, <<"ep-uB">>}

NcsOfKind(name, kind) ==
    {Nc(name, kind, which, te, se) :
        which \in TagsOf[kind],
        te \in TsfEndpointsOf(kind),
        se \in SgupEndpointsOf(kind)}

NcsNamed(name) == UNION {NcsOfKind(name, kind) : kind \in Kinds}

\* the topology rules: a network connection of the topology kind connects
\* the user plane endpoint up_ep_name to the TSF endpoint tsf_ep_name
Connects(nc, kind, up_ep_name, tsf_ep_name) ==
    IF kind = "ss_ptp" THEN
        /\ nc.ss_ptp.tsf_endpoint = tsf_ep_name
        /\ up_ep_name \in Range(nc.ss_ptp.sgup_endpoint)
    ELSE IF kind = "ss_mptp" THEN
        /\ tsf_ep_name \in Range(nc.ss_mptp.tsf_endpoint)
        /\ up_ep_name \in Range(nc.ss_mptp.sgup_endpoint)
    ELSE IF kind = "ms_ptp" THEN
        /\ nc.ms_ptp.tsf_endpoint = tsf_ep_name
        /\ nc.ms_ptp.sgup_endpoint = up_ep_name
    ELSE
        /\ tsf_ep_name \in Range(nc.ms_mptp.tsf_endpoint)
        /\ nc.ms_mptp.sgup_endpoint = up_ep_name

\* the network connections called name that connect ep-uA to a TSF
NcsMatchingNamed(name) ==
    {nc \in NcsNamed(name) :
        \E tsf_ep_name \in {"ep-t1", "ep-t2"} :
            Connects(nc, KindOfTag(nc.which), "ep-uA", tsf_ep_name)}

\* the loads and eligibility of the user planes of the model:
\* <<service_gateway_name, max_session_count, allocated_session_count>>
SgupProfiles ==
    {<<"g1", 2, 0>>, <<"g1", 2, 1>>, <<"g1", 4, 1>>, <<"g1", 0, 0>>,
     <<"g2", 2, 0>>}

UpNames == <<"uA", "uB", "uC">>

\* the lists of n user planes
SgupLists(n, profiles) ==
    {[i \in 1..n |-> Sgup(UpNames[i], f[i])] : f \in [1..n -> profiles]}

TypicalNc == Nc("n1", "ms_ptp", "ms_ptp", "ep-t1", "ep-uA")

\* the part of the initial state that is the same in all worlds
InitProgram ==
    /\ sgs = <<[name |-> "g1"]>>
    /\ events = 0
    /\ blanks = 0
    /\ stop_thread = FALSE
    /\ sw = [t \in Sweepers |-> IdleFrame]
    /\ lastClean = FALSE
    /\ ticksLeft = MaxTicks
    /\ cd = IdleInvocation
    /\ mat = NoInvocation
    /\ taken = NothingTaken

\* the threads before main() runs; stop is "idle" where some thread will
\* call stop() and "absent" where none does
StartPc(stop) ==
    [main |-> 1, watch |-> "unstarted", register |-> "unstarted",
     stop |-> stop]

\* a program that no one stops, on a stream without incidents and a store
\* that no one else changes
Undisturbed ==
    /\ pc = StartPc("absent")
    /\ others = {}
    /\ envLeft = 0
    /\ streamLeft = 0
    /\ faultsLeft = 0

\* stores with up to two user planes and two shards, each shard bound to a
\* present, an absent or no user plane and pinned or not by the policy
InitPins ==
    /\ sgups \in UNION {SgupLists(n, {<<"g1", 2, 0>>, <<"g1", 2, 1>>,
                                       <<"g1", 0, 0>>}) : n \in 0..2}
    /\ tsfs = <<Tsf("t1")>>
    /\ ncs = <<TypicalNc>>
    /\ \E up1 \in {"", "uA", "uZ"}, up2 \in {"", "uA", "uZ"} :
          shards = <<Shard("s1", up1, <<>>),
                     Shard("s2", up2, IF up2 = "" THEN <<>> ELSE <<"n1">>)>>
    /\ \E pin1 \in {None, "uA", "uB", "uZ"}, pin2 \in {None, "uA", "uB", "uZ"} :
          policy = Policy(<<Entry("s1", pin1), Entry("s2", pin2)>>)
    /\ order = <<"n1", "n2">>
    /\ auto_register = FALSE
    /\ Undisturbed

\* stores with three user planes of all loads and one unpinned shard that
\* needs a user plane
InitLoads ==
    /\ sgups \in SgupLists(3, SgupProfiles)
    /\ tsfs = <<Tsf("t1")>>
    /\ ncs = <<TypicalNc>>
    /\ shards \in {<<Shard("s1", up, <<>>)>> : up \in {"", "uZ"}}
    /\ policy = Policy(<<Entry("s1", None)>>)
    /\ order = <<"n1", "n2">>
    /\ auto_register = FALSE
    /\ Undisturbed

\* stores with up to two network connections of all topologies and tags
InitNcs ==
    /\ sgups = <<Sgup("uA", <<"g1", 2, 0>>)>>
    /\ tsfs = <<Tsf("t1"), Tsf("t2")>>
    /\ ncs \in {<<>>} \cup {<<a>> : a \in NcsNamed("n1")}
                \cup {<<a, b>> : a \in NcsNamed("n1"),
                                 b \in NcsMatchingNamed("n2")}
    /\ shards \in {<<Shard("s1", "", <<>>)>>,
                   <<Shard("s1", "uA", <<"n1", "n2">>)>>,
                   <<Shard("s1", "uA", <<"n1,n2">>)>>}
    /\ policy = Policy(<<Entry("s1", None)>>)
    /\ order \in {<<"n1", "n2">>, <<"n2", "n1">>}
    /\ auto_register = FALSE
    /\ Undisturbed

\* small stores that others change while the program runs, with the
\* periodic task on and shards that the policy names but the store lacks;
\* among them a store without user plane whose one shard the policy pins to
\* a user plane that no one registers, and a store whose user plane is
\* updated
InitLive ==
    /\ tsfs = <<Tsf("t1")>>
    /\ ncs = <<TypicalNc>>
    /\ \/ /\ sgups \in UNION {SgupLists(n, {<<"g1", 2, 0>>}) : n \in 0..2}
          /\ shards \in {<<>>, <<Shard("s1", "uA", <<"n1">>)>>}
          /\ policy \in {Policy(<<Entry("s1", None), Entry("s2", pin)>>) :
                          pin \in {None, "uB"}}
          /\ others = {"create user plane", "delete user plane"}
       \/ /\ sgups = <<>>
          /\ shards = <<Shard("s1", "uA", <<"n1">>)>>
          /\ policy = Policy(<<Entry("s1", "uZ"), Entry("s2", None)>>)
          /\ others = {"create user plane"}
       \/ /\ sgups = <<Sgup("uA", <<"g1", 2, 0>>)>>
          /\ shards = <<Shard("s1", "", <<>>)>>
          /\ policy = Policy(<<Entry("s1", None)>>)
          /\ others = {"update user plane"}
    /\ order = <<"n1", "n2">>
    /\ auto_register = TRUE
    /\ pc = StartPc("absent")
    /\ envLeft = MaxEnvChanges
    /\ streamLeft = 0
    /\ faultsLeft = 0

\* a small store that others change, on a stream that closes and yields
\* items without name, for a program that some thread stops
InitStream ==
    /\ sgups = <<Sgup("uA", <<"g1", 2, 0>>)>>
    /\ tsfs = <<Tsf("t1")>>
    /\ ncs = <<TypicalNc>>
    /\ shards = <<Shard("s1", "uA", <<"n1">>)>>
    /\ policy = Policy(<<Entry("s1", None), Entry("s2", None)>>)
    /\ order = <<"n1", "n2">>
    /\ auto_register = TRUE
    /\ pc = StartPc("idle")
    /\ others = {"delete user plane", "delete network connection"}
    /\ envLeft = MaxEnvChanges
    /\ streamLeft = MaxStreamIncidents
    /\ faultsLeft = 0

\* policies of three entries, each pinned or not, for stores with one or two
\* user planes that hold none or one of the shards of the policy
InitMaterial ==
    /\ sgups \in UNION {SgupLists(n, {<<"g1", 2, 0>>}) : n \in 1..2}
    /\ tsfs = <<Tsf("t1")>>
    /\ ncs = <<TypicalNc>>
    /\ shards \in {<<>>, <<Shard("s2", "", <<>>)>>}
    /\ \E pin1 \in {None, "uA", "uB", "uZ"}, pin2 \in {None, "uA", "uB", "uZ"},
          pin3 \in {None, "uA", "uB", "uZ"} :
          policy = Policy(<<Entry("s1", pin1), Entry("s2", pin2),
                            Entry("s3", pin3)>>)
    /\ order = <<"n1", "n2">>
    /\ auto_register = TRUE
    /\ Undisturbed

\* the prefix lists and exclude lists of the policies of the model
PrefixLists ==
    {<<"10.0.0.0/30">>, <<"10.0.0.0/30", "10.0.1.0/31">>,
     <<"bad/prefix", "10.0.0.0/30">>, <<"10.0.0.1/30">>, <<>>}

ExcludeLists ==
    {<<>>, <<"10.0.0.1">>, <<"10.0.9.9">>, <<"bogus">>,
     <<"10.0.1.0", "bogus">>}

\* policies of one entry with prefixes and exclusions of all kinds, alone or
\* after an entry that lacks a key, a policy that names one shard twice and
\* the policy file that does not exist, for a store with one user plane, with
\* or without capacity
InitCapacity ==
    /\ sgups \in SgupLists(1, {<<"g1", 2, 0>>, <<"g1", 0, 0>>})
    /\ tsfs = <<Tsf("t1")>>
    /\ ncs = <<TypicalNc>>
    /\ shards = <<>>
    /\ policy \in
         {NoPolicy}
         \cup {Policy(<<EntryWith(keys, "s1", None, prefixes, exclude)>>) :
                 keys \in {{"name", "prefixes"},
                           {"name", "prefixes", "exclude"}},
                 prefixes \in PrefixLists, exclude \in ExcludeLists}
         \cup {Policy(<<EntryWith(keys, "s0", None, <<"10.0.0.0/30">>, <<>>),
                        EntryWith({"name", "prefixes", "exclude"}, "s1", None,
                                  <<"10.0.0.0/30">>, <<"10.0.0.1">>)>>) :
                 keys \in {{"name"}, {"prefixes"}}}
         \cup {Policy(<<EntryWith({"name", "prefixes"}, "s1", None,
                                  <<"10.0.0.0/30">>, <<>>),
                        EntryWith({"name", "prefixes"}, "s1", None,
                                  <<"10.0.1.0/31">>, <<>>)>>)}
    /\ order = <<"n1", "n2">>
    /\ auto_register = TRUE
    /\ Undisturbed

\* small stores that others change, for a program whose create_default_items
\* calls can fail: on a store call that fails, on a policy file that the
\* loader rejects or on one without a document
InitFaulty ==
    /\ sgups \in {<<>>, <<Sgup("uA", <<"g1", 2, 0>>)>>}
    /\ tsfs = <<Tsf("t1")>>
    /\ ncs = <<TypicalNc>>
    /\ shards = <<Shard("s1", "uA", <<"n1">>)>>
    /\ policy \in {Policy(<<Entry("s1", None), Entry("s2", None)>>),
                    MalformedPolicy, EmptyPolicy}
    /\ order = <<"n1", "n2">>
    /\ auto_register = TRUE
    /\ pc = StartPc("absent")
    /\ others = {"create user plane"}
    /\ envLeft = MaxEnvChanges
    /\ streamLeft = 0
    /\ faultsLeft = MaxFaults

\* stores with a name that holds a character outside ASCII: the name of a
\* network connection, stored in a shard or not, or the user plane that a
\* shard is bound to
InitNames ==
    /\ sgups = <<Sgup("uA", <<"g1", 2, 0>>)>>
    /\ tsfs = <<Tsf("t1")>>
    /\ ncs \in {<<TypicalNc>>,
                 <<Nc("né", "ms_ptp", "ms_ptp", "ep-t1", "ep-uA")>>}
    /\ \E up \in {"", "uA", "né"}, nc \in {<<>>, <<"n1">>, <<"né">>} :
          shards = <<Shard("s1", up, nc), Shard("s2", "", <<>>)>>
    /\ policy \in {Policy(<<Entry("s1", pin), Entry("s2", None)>>) :
                    pin \in {None, "uA"}}
    /\ order = <<"n1", "né">>
    /\ auto_register = FALSE
    /\ Undisturbed

Init ==
    InitProgram /\ (InitPins \/ InitLoads \/ InitNcs \/ InitLive
                        \/ InitStream \/ InitMaterial \/ InitCapacity
                        \/ InitFaulty \/ InitNames)

\* a user plane that is not in the store is registered: the first of UpNames
\* that the store lacks
EnvAddSgup ==
    /\ EnvChange
    /\ "create user plane" \in others
    /\ \E k \in DOMAIN UpNames :
          /\ ~InSeq(UpNames[k], Names(sgups))
          /\ \A j \in 1..(k - 1) : InSeq(UpNames[j], Names(sgups))
          /\ sgups' = Append(sgups, Sgup(UpNames[k], <<"g1", 2, 0>>))
    /\ UNCHANGED <<tsfs, ncs>>

\* the first user plane of the store reports other service groups
EnvRelabelSgup ==
    /\ EnvChange
    /\ "update user plane" \in others
    /\ Len(sgups) > 0
    /\ sgups[1].supported_service_group # <<"grp2">>
    /\ sgups' = [sgups EXCEPT ![1].supported_service_group = <<"grp2">>]
    /\ UNCHANGED <<tsfs, ncs>>

Next ==
    \/ \E t \in Materializers : CreateDefaultItemsBegin(t)
    \/ CreateDefaultItemsListShards
    \/ CreateDefaultItemsEntry
    \/ CreateDefaultItemsPinned
    \/ CreateDefaultItemsCreate
    \/ StoreFault
    \/ MainRegister
    \/ MainStart
    \/ \E t \in Sweepers : MapShardsBegin(t)
    \/ \E t \in Sweepers : MapShardsRead(t)
    \/ \E t \in Sweepers : MapShardsStep(t)
    \/ \E t \in Sweepers : MapShardsWrite(t)
    \/ \E t \in Sweepers : MapShardsDump(t)
    \/ \E t \in Sweepers : MapShardsEnd(t)
    \/ WatchSubscribe
    \/ WatchDispatchItem
    \/ WatchSkipItem
    \/ WatchBackoff
    \/ StreamCloses
    \/ StreamUnnamedItem
    \/ Stop
    \/ StopJoin
    \/ EnvRemoveSgup
    \/ EnvRemoveNc
    \/ EnvAddSgup
    \/ EnvRelabelSgup

Spec == Init /\ [][Next]_vars

\* the threads make progress: the main thread and the watch thread are
\* operating system threads that are scheduled again and again
MainNext ==
    \/ CreateDefaultItemsBegin("main")
    \/ (cd.who = "main" /\ (\/ CreateDefaultItemsListShards
                            \/ CreateDefaultItemsEntry
                            \/ CreateDefaultItemsPinned
                            \/ CreateDefaultItemsCreate))
    \/ MainRegister
    \/ MainStart
    \/ MapShardsBegin("main")
    \/ MapShardsRead("main")
    \/ MapShardsStep("main")
    \/ MapShardsWrite("main")
    \/ MapShardsDump("main")
    \/ MapShardsEnd("main")

WatchNext ==
    \/ WatchSubscribe
    \/ WatchDispatchItem
    \/ WatchSkipItem
    \/ WatchBackoff
    \/ MapShardsBegin("watch")
    \/ MapShardsRead("watch")
    \/ MapShardsStep("watch")
    \/ MapShardsWrite("watch")
    \/ MapShardsDump("watch")
    \/ MapShardsEnd("watch")

LiveInit == InitProgram /\ (InitLive \/ InitStream \/ InitFaulty)

FairSpec ==
    LiveInit /\ [][Next]_vars /\ WF_vars(MainNext) /\ WF_vars(WatchNext)

(***************************************************************************)
(* Vocabulary of the properties.                                           *)
(***************************************************************************)
\* the map_shards call of t has ended and has not yet returned
Done(t) == sw[t].stage = "done"

\* ... and it ended without a store error
Finished(t) == Done(t) /\ sw[t].outcome \notin {"error", "raised"}

\* the entries of a log that issued updateShard
Updates(log) == SelectSeq(log, LAMBDA e : e.act = "update")

\* the entries of a log that computed the desired state of their shard
Computed(log) == SelectSeq(log, LAMBDA e : e.act \in {"update", "none"})

\* the shard called name, as the store holds it
Stored(name) == shards[IndexOf(shards, name)]

\* the pin of the policy for a shard name: the first entry of that name that
\* carries a user plane
PinOf(name) ==
    IF policy.exists
       /\ \E k \in DOMAIN policy.shards :
            /\ policy.shards[k].name = name
            /\ {"name", "serviceGatewayUserPlane"} \subseteq policy.shards[k].keys
    THEN LET k == CHOOSE k \in DOMAIN policy.shards :
                    /\ policy.shards[k].name = name
                    /\ {"name", "serviceGatewayUserPlane"}
                            \subseteq policy.shards[k].keys
                    /\ \A j \in 1..(k - 1) :
                          ~(/\ policy.shards[j].name = name
                            /\ {"name", "serviceGatewayUserPlane"}
                                \subseteq policy.shards[j].keys)
         IN policy.shards[k].serviceGatewayUserPlane
    ELSE None

\* the names of the user planes of a snapshot
UpNamesOf(fr) == {fr.sgups[k].name : k \in DOMAIN fr.sgups}

\* a user plane is eligible in a snapshot
Eligible(u, fr) ==
    /\ u.max_session_count > 0
    /\ \E k \in DOMAIN fr.sgs : fr.sgs[k].name = u.service_gateway_name

\* the load of u is at most / less than the load of v (both eligible)
LoadAtMost(u, v) ==
    u.allocated_session_count * v.max_session_count
        <= v.allocated_session_count * u.max_session_count

\* the pin of the shard is a user plane that the snapshot lacks
PinUnresolvable(shard, fr) ==
    PinOf(shard.name) # None /\ PinOf(shard.name) \notin UpNamesOf(fr)

(***************************************************************************)
(* C1. Idempotence of the sweep: a sweep that follows a sweep that ran to  *)
(* its end, with no change of the store in between other than the writes   *)
(* of that first sweep, issues no updateShard.                             *)
(***************************************************************************)
C1_SecondSweepIssuesNoUpdate ==
    \A t \in Sweepers : sw[t].after => Len(Updates(sw[t].log)) = 0

(***************************************************************************)
(* C2. No write storm: once the store and the policy are no longer changed *)
(* from outside, there is a point after which no updateShard is issued     *)
(* any more.  JustWrote holds in the states that an updateShard leads to.  *)
(***************************************************************************)
JustWrote ==
    \E t \in Sweepers :
        /\ Len(sw[t].log) > 0
        /\ sw[t].log[Len(sw[t].log)].act = "update"
        /\ sw[t].stage \notin {"dump", "done"}

\* C2: with the store and the policy left alone from some point on, the
\* sweeps eventually issue no further shard update
C2_EventuallyNoMoreUpdates == <>[](~JustWrote)

(***************************************************************************)
(* C3. P1: after a sweep that ran to its end, the desired user plane of    *)
(* every shard of its snapshot is empty or the name of a user plane of the *)
(* snapshot.                                                               *)
(***************************************************************************)
C3_DesiredUpIsKnownOrEmpty ==
    \A t \in Sweepers :
        Finished(t) =>
            \A k \in DOMAIN sw[t].shards :
                Stored(sw[t].shards[k].name).desired_service_gateway_user_plane
                    \in UpNamesOf(sw[t]) \cup {""}

(***************************************************************************)
(* C4. P2: after a sweep that ran to its end, every shard of the snapshot  *)
(* that the policy pins to a user plane of the snapshot has that user      *)
(* plane as its desired user plane.                                        *)
(***************************************************************************)
C4_ResolvablePinIsHonoured ==
    \A t \in Sweepers :
        Finished(t) =>
            \A k \in DOMAIN sw[t].shards :
                LET h == sw[t].shards[k] IN
                (PinOf(h.name) # None /\ PinOf(h.name) \in UpNamesOf(sw[t]))
                    => Stored(h.name).desired_service_gateway_user_plane
                            = PinOf(h.name)

(***************************************************************************)
(* C5. An unresolvable static pin is local to its shard: a sweep of a      *)
(* snapshot with user planes issues no updateShard for a shard whose pin   *)
(* names a user plane that the snapshot lacks, and it processes every      *)
(* other shard of the snapshot, with the result the loop body has for it.  *)
(***************************************************************************)
C5_UnresolvablePinIsLocal ==
    \A t \in Sweepers :
        (Finished(t) /\ sw[t].pure /\ Len(sw[t].sgups) > 0) =>
            \A k \in DOMAIN sw[t].shards :
                LET h == sw[t].shards[k]
                    log == sw[t].log
                IN  IF PinUnresolvable(h, sw[t])
                    THEN \A j \in DOMAIN log :
                            log[j].shard = h.name => log[j].act # "update"
                    ELSE \E j \in DOMAIN log :
                            /\ log[j].shard = h.name
                            /\ log[j].act =
                                MapOneShard(h, sw[t], policy, sw[t].sgups,
                                            order).act

(***************************************************************************)
(* C6. P3: for a shard without static pin whose desired user plane is not  *)
(* in the snapshot, the user plane the sweep chooses is eligible           *)
(* (max_session_count > 0, service gateway listed), no eligible user plane *)
(* has a smaller load, and every eligible user plane listed before it has  *)
(* a greater load; an update issued for the shard carries that choice.     *)
(***************************************************************************)
\* the k-th user plane of the snapshot is the first eligible one of least load
FirstLeastLoaded(fr, k) ==
    /\ Eligible(fr.sgups[k], fr)
    /\ \A m \in DOMAIN fr.sgups :
          Eligible(fr.sgups[m], fr) =>
              /\ LoadAtMost(fr.sgups[k], fr.sgups[m])
              /\ m < k => ~LoadAtMost(fr.sgups[m], fr.sgups[k])

\* the j-th shard of the snapshot has no pin and a desired user plane that
\* the snapshot lacks, and the sweep has chosen a user plane for it
Reselected(fr, j) ==
    /\ j \in DOMAIN fr.log
    /\ fr.stage \in {"map", "write", "dump", "done"}
    /\ Len(fr.sgups) > 0
    /\ PinOf(fr.shards[j].name) = None
    /\ fr.shards[j].desired_service_gateway_user_plane \notin UpNamesOf(fr)
    /\ fr.log[j].act \in {"update", "none", "UpsfError"}

\* C6: the user plane chosen for a reselected shard is the first eligible
\* one of least load in the iteration order of the sweep
C6_LeastLoadedChosen ==
    \A t \in Sweepers :
        \A j \in DOMAIN sw[t].log :
            Reselected(sw[t], j) =>
                /\ sw[t].log[j].shard = sw[t].shards[j].name
                /\ \E k \in DOMAIN sw[t].sgups :
                      /\ sw[t].sgups[k].name = sw[t].log[j].up
                      /\ FirstLeastLoaded(sw[t], k)
                /\ sw[t].log[j].act = "update" =>
                      sw[t].log[j].params.desired_service_gateway_user_plane
                          = sw[t].log[j].up

\* a choice among three eligible user planes: the first has a greater load
\* than the second, the third has the load of the second, the second wins
C6_Witness ==
    \E t \in Sweepers :
        /\ Reselected(sw[t], 1)
        /\ sw[t].log[1].act = "update"
        /\ Len(sw[t].sgups) = 3
        /\ \A k \in 1..3 : Eligible(sw[t].sgups[k], sw[t])
        /\ ~LoadAtMost(sw[t].sgups[1], sw[t].sgups[2])
        /\ LoadAtMost(sw[t].sgups[3], sw[t].sgups[2])
        /\ sw[t].sgups[2].max_session_count # sw[t].sgups[1].max_session_count
        /\ Stored(sw[t].shards[1].name).desired_service_gateway_user_plane
              = sw[t].sgups[2].name

(***************************************************************************)
(* C7. P4, soundness of the matching: every name that a sweep writes into  *)
(* desired_network_connection is the name of a network connection of the   *)
(* snapshot that, by the rule of its own topology, connects the default    *)
(* endpoint of the user plane written with it to the default endpoint of   *)
(* a TSF of the snapshot.                                                  *)
(***************************************************************************)
\* the default endpoint name of the user plane called name in a snapshot
EndpointOfUp(fr, name) == fr.sgups[IndexOf(fr.sgups, name)].default_endpoint

\* nc connects, by its own topology, the user plane called up to some TSF
ConnectsToSomeTsf(fr, nc, up) ==
    \E x \in DOMAIN fr.tsfs :
        Connects(nc, KindOfTag(nc.which), EndpointOfUp(fr, up),
                 fr.tsfs[x].default_endpoint)

\* C7: every network connection name an update writes connects the desired
\* user plane of that update to some TSF of the snapshot
C7_WrittenNcsConnect ==
    \A t \in Sweepers :
        \A j \in DOMAIN sw[t].log :
            LET e == sw[t].log[j] IN
            (e.act = "update" /\ "desired_network_connection" \in DOMAIN e.params)
            => /\ e.params.desired_service_gateway_user_plane
                    \in UpNamesOf(sw[t])
               /\ \A n \in Range(e.params.desired_network_connection) :
                    \E y \in DOMAIN sw[t].ncs :
                        /\ sw[t].ncs[y].name = n
                        /\ ConnectsToSomeTsf(sw[t], sw[t].ncs[y],
                              e.params.desired_service_gateway_user_plane)

\* an update that writes the names of two network connections
C7_Witness ==
    \E t \in Sweepers :
        /\ Len(sw[t].log) > 0
        /\ sw[t].log[1].act = "update"
        /\ "desired_network_connection" \in DOMAIN sw[t].log[1].params
        /\ Len(sw[t].log[1].params.desired_network_connection) = 2
        /\ Stored("s1").desired_network_connection
              = sw[t].log[1].params.desired_network_connection

(***************************************************************************)
(* C8. Completeness of the matching: a network connection of the snapshot  *)
(* that, by the rule of its topology, connects the default endpoint of the *)
(* chosen user plane to the default endpoint of a TSF of the snapshot is   *)
(* in the desired set the sweep computes, for each of the four topologies  *)
(* and for both spellings of the tag.                                      *)
(***************************************************************************)
C8_ConnectingNcsAreDesired ==
    \A t \in Sweepers :
        \A j \in DOMAIN sw[t].log :
            LET e == sw[t].log[j] IN
            (e.act \in {"update", "none"} /\ sw[t].pure) =>
                \A y \in DOMAIN sw[t].ncs :
                    ConnectsToSomeTsf(sw[t], sw[t].ncs[y], e.up)
                        => sw[t].ncs[y].name \in Range(e.nc)

(***************************************************************************)
(* C9. P6, empty fleet: a sweep whose snapshot has no user plane issues    *)
(* one updateShard for each shard with a desired user plane, in the order  *)
(* of the snapshot, with name, the stored prefix and list_merge_strategy   *)
(* "replace" and nothing else, and none for the other shards; afterwards   *)
(* the desired_network_connection of every updated shard is empty.         *)
(***************************************************************************)
\* the updates of the claim for a snapshot without user planes
ExpectedResets(fr) ==
    LET bound == SelectSeq(fr.shards,
                    LAMBDA h : h.desired_service_gateway_user_plane # "")
    IN  [k \in DOMAIN bound |->
            [name |-> bound[k].name,
             prefix |-> bound[k].prefix,
             list_merge_strategy |-> "replace"]]

\* C9: a finished sweep over a snapshot without user planes has issued
\* exactly one reset (name, prefix, "replace") for each shard with a desired
\* user plane, and the stored network connections of those shards are empty
C9_EmptyFleetResets ==
    \A t \in Sweepers :
        (Done(t) /\ Len(sw[t].sgups) = 0) =>
            /\ [k \in DOMAIN Updates(sw[t].log) |->
                    Updates(sw[t].log)[k].params] = ExpectedResets(sw[t])
            /\ \A k \in DOMAIN sw[t].shards :
                  sw[t].shards[k].desired_service_gateway_user_plane # ""
                  => Stored(sw[t].shards[k].name).desired_network_connection
                        = <<>>

\* a sweep without user planes that has skipped a shard without desired
\* user plane and has reset one that had network connections
C9_Witness ==
    \E t \in Sweepers :
        /\ Done(t)
        /\ Len(sw[t].sgups) = 0
        /\ Len(sw[t].shards) = 2
        /\ sw[t].shards[1].desired_service_gateway_user_plane = ""
        /\ sw[t].shards[2].desired_service_gateway_user_plane # ""
        /\ Len(sw[t].shards[2].desired_network_connection) > 0
        /\ Len(Updates(sw[t].log)) = 1
        /\ Stored(sw[t].shards[2].name).desired_network_connection = <<>>

(***************************************************************************)
(* C10. Single flight: the map_shards calls of the main thread and of the  *)
(* watch thread are never in progress together.                            *)
(***************************************************************************)
C10_SingleFlight ==
    ~(sw["main"].stage # "idle" /\ sw["watch"].stage # "idle")

\* the watch thread is in a sweep that has written a shard, after the
\* startup sweep of the main thread has returned
C10_Witness ==
    /\ sw["main"].stage = "idle"
    /\ pc.main > 3
    /\ sw["watch"].stage \in {"reset", "map"}
    /\ Len(Updates(sw["watch"].log)) > 0

(***************************************************************************)
(* Vocabulary of the properties of create_default_items.                   *)
(***************************************************************************)
\* the entries of the policy file
PolicyEntries == IF policy.exists THEN policy.shards ELSE <<>>

\* the entries of the policy that create_default_items looks at
ValidEntries ==
    SelectSeq(PolicyEntries, LAMBDA e : {"name", "prefixes"} \subseteq e.keys)

\* the pin of an entry, None when it has none
EntryPin(e) ==
    IF "serviceGatewayUserPlane" \in e.keys THEN e.serviceGatewayUserPlane
    ELSE None

\* the entries that the last invocation found valid and not stored
NewEntries == SelectSeq(ValidEntries, LAMBDA e : e.name \notin mat.existing)

\* the createShard calls of the last invocation for the name of entry e
CallsFor(e) == SelectSeq(mat.calls, LAMBDA c : c.name = e.name)

(***************************************************************************)
(* C11. Idempotence of create_default_items: an invocation leaves every    *)
(* shard of the list it read as it is stored (no updateShard), issues      *)
(* createShard only for names of the policy that are not in that list, and *)
(* an invocation on the store that a completed invocation has produced,    *)
(* with the same policy and the same user planes, issues no createShard.   *)
(***************************************************************************)
\* the last invocation has run to its end, and no one else has changed the
\* store since it began
Completed ==
    /\ mat.n > 0
    /\ cd.stage = "idle"
    /\ ~mat.raised
    /\ mat.env0 = envLeft

C11_MaterializerIdempotent ==
    mat.n > 0 =>
        /\ mat.kept
        /\ \A k \in DOMAIN mat.calls :
              /\ mat.calls[k].name \notin mat.existing
              /\ \E j \in DOMAIN PolicyEntries :
                    PolicyEntries[j].name = mat.calls[k].name
        /\ Completed => create_default_items(policy, sgups, shards) = <<>>
        /\ (mat.n > 1 /\ ~mat.prev_raised /\ mat.prev_env0 = envLeft)
              => Len(mat.calls) = 0

\* the periodic task has run create_default_items on the store in which the
\* startup invocation has created two shards, and has created none
C11_Witness ==
    /\ mat.n = 2
    /\ Len(mat.prev) = 2
    /\ Len(mat.calls) = 0
    /\ mat.existing # {}
    /\ mat.prev_live = mat.live
    /\ ~mat.prev_raised
    /\ Completed

(***************************************************************************)
(* C12. P7, capacity: every shard that create_default_items creates has    *)
(* max_session_count equal to the sum, over the prefixes of its entry that *)
(* parse, of the number of hosts of the prefix that are not excluded; an   *)
(* address of exclude that does not parse excludes nothing and takes       *)
(* nothing from the prefixes that parse.                                   *)
(***************************************************************************)
\* the addresses of exclude that parse
ParsedExclude(e) ==
    IF "exclude" \in e.keys THEN Range(e.exclude) \cap IpAddresses ELSE {}

\* the sum over the prefixes that parse of |hosts(p) minus X|
RECURSIVE SumHosts(_, _)
SumHosts(prefixes, X) ==
    IF Len(prefixes) = 0 THEN 0
    ELSE (IF Head(prefixes) \in DOMAIN NetworkHosts
          THEN Cardinality(NetworkHosts[Head(prefixes)] \ X) ELSE 0)
            + SumHosts(Tail(prefixes), X)

\* C12: the capacity of every created shard is the sum over the prefixes
\* that parse of the hosts that are not excluded
C12_CapacityIsSumOfHosts ==
    \A k \in DOMAIN mat.calls :
        \E j \in DOMAIN PolicyEntries :
            /\ PolicyEntries[j].name = mat.calls[k].name
            /\ mat.calls[k].max_session_count =
                  SumHosts(PolicyEntries[j].prefixes,
                           ParsedExclude(PolicyEntries[j]))

(***************************************************************************)
(* C13. Stop terminates the control loop: once stop() has set the stop     *)
(* signal, the watch thread has left run() or is able to take a step       *)
(* towards leaving it without a further item of the stream, so that the    *)
(* join of stop() returns, and the periodic task makes no further          *)
(* create_default_items invocation.                                        *)
(***************************************************************************)
C13_StopTerminates ==
    /\ stop_thread => (pc.watch = "exited" \/ ENABLED WatchNext)
    /\ ~mat.after_stop

(***************************************************************************)
(* C14. Re-subscription with back-off: while the stop signal is not set,   *)
(* the watch thread comes to open a subscription only from its start or    *)
(* from the 1-second back-off, so a stream that has ended or failed is     *)
(* followed by the back-off before the fresh subscription, and the thread  *)
(* leaves the loop only when the stop signal is set.                       *)
(***************************************************************************)
C14_ResubscribeAfterBackoff ==
    [][/\ (~stop_thread /\ pc.watch # "subscribe" /\ pc'.watch = "subscribe")
            => pc.watch \in {"unstarted", "backoff"}
       /\ (pc.watch # "exited" /\ pc'.watch = "exited") => stop_thread]_vars

(***************************************************************************)
(* C15. Per-shard error isolation: a sweep in which the processing of a    *)
(* shard raised an exception has gone on to process every remaining shard  *)
(* of its snapshot.                                                        *)
(***************************************************************************)
\* the processing of some shard of the sweep raised an exception
Raised(log) == \E k \in DOMAIN log : log[k].act = "UpsfError"

C15_SweepGoesOnAfterException ==
    \A t \in Sweepers :
        (Done(t) /\ Raised(sw[t].log)) => Len(sw[t].log) = Len(sw[t].shards)

(***************************************************************************)
(* C16. Write iff changed: for every shard that a sweep has processed to   *)
(* the comparison of the fingerprints, updateShard was issued if and only  *)
(* if the chosen user plane differs from the stored desired user plane or  *)
(* the computed list of network connection names differs from the stored   *)
(* desired_network_connection list (equal fingerprints only for equal      *)
(* pairs).                                                                 *)
(***************************************************************************)
C16_WriteIffChanged ==
    \A t \in Sweepers :
        \A k \in DOMAIN sw[t].log :
            LET e == sw[t].log[k]
                h == sw[t].shards[k]
            IN  (e.mode # "-" /\ e.act \in {"update", "none"}) =>
                    ((e.act = "update") <=>
                        \/ e.up # h.desired_service_gateway_user_plane
                        \/ e.nc # h.desired_network_connection)

(***************************************************************************)
(* C17. TSF-to-NC map: in every updateShard that a sweep issues for a      *)
(* shard bound to a user plane, current_tsf_network_connection has an      *)
(* entry for exactly the TSFs of the snapshot that some network connection *)
(* connects to that user plane, and the entry of a TSF is the last such    *)
(* network connection of the store's list.                                 *)
(***************************************************************************)
\* the positions in the snapshot of the network connections that connect,
\* by their topology, the user plane called up to the TSF tsf
MatchingNcs(fr, tsf, up) ==
    {y \in DOMAIN fr.ncs :
        Connects(fr.ncs[y], KindOfTag(fr.ncs[y].which), EndpointOfUp(fr, up),
                 tsf.default_endpoint)}

\* the largest element of a non-empty set of numbers
Last(S) == CHOOSE y \in S : \A z \in S : z <= y

\* C17: the TSF-to-NC map of an update has the last matching network
\* connection for every TSF that has one and nothing for the other TSFs
C17_TsfMapHasLastMatchingNc ==
    \A t \in Sweepers :
        \A j \in DOMAIN sw[t].log :
            LET e == sw[t].log[j]
                fr == sw[t]
            IN  (e.act = "update" /\ e.mode # "-" /\ fr.pure) =>
                    /\ DOMAIN e.params.current_tsf_network_connection =
                          {fr.tsfs[x].name : x \in
                              {x \in DOMAIN fr.tsfs :
                                  MatchingNcs(fr, fr.tsfs[x], e.up) # {}}}
                    /\ \A x \in DOMAIN fr.tsfs :
                          MatchingNcs(fr, fr.tsfs[x], e.up) # {} =>
                              e.params.current_tsf_network_connection[
                                    fr.tsfs[x].name]
                                = fr.ncs[Last(MatchingNcs(fr, fr.tsfs[x],
                                                          e.up))].name

(***************************************************************************)
(* C18. FIFO of create_default_items: within one invocation the list of    *)
(* user plane names is filled once, in store order; the k-th new entry     *)
(* without pin is created with the k-th user plane while k is at most the  *)
(* number of user planes, and every further new entry without pin is       *)
(* created without desired user plane.                                     *)
(***************************************************************************)
\* the new entries without pin, in the order of the policy
NewUnpinned == SelectSeq(NewEntries, LAMBDA e : EntryPin(e) = None)

\* an invocation that got past the two sanity checks and has run to its end
\* on a store that no one else changed
Materialized == Completed /\ Len(mat.live) > 0 /\ policy.exists

\* C18: the k-th new entry without pin gets the k-th user plane, and none
\* once the user planes are used up
C18_FifoFilledOnce ==
    Materialized =>
        \A k \in DOMAIN NewUnpinned :
            LET c == CallsFor(NewUnpinned[k]) IN
            /\ Len(c) = 1
            /\ IF k <= Len(mat.live)
               THEN /\ "desired_service_gateway_user_plane" \in DOMAIN c[1]
                    /\ c[1].desired_service_gateway_user_plane = mat.live[k]
               ELSE "desired_service_gateway_user_plane" \notin DOMAIN c[1]

(***************************************************************************)
(* C19. Static pin in create_default_items: a new entry pinned to a user   *)
(* plane of the store is created with that user plane; a new entry pinned  *)
(* to a user plane that the store lacks is not created, and the entries    *)
(* after it are still processed; pinned entries take nothing from the FIFO *)
(* (the k-th new entry without pin still gets the k-th user plane).        *)
(***************************************************************************)
\* the new entries that an invocation creates: those without pin and those
\* pinned to a user plane of the list that the invocation has read
Creatable ==
    SelectSeq(NewEntries,
              LAMBDA e : EntryPin(e) = None \/ InSeq(EntryPin(e), mat.live))

\* the number of entries without pin among the first k of Creatable
UnpinnedUpTo(k) == Cardinality({j \in 1..k : EntryPin(Creatable[j]) = None})

\* C19: the createShard calls of an invocation are, in the order of the
\* policy, those of the new entries without pin or with a pin of the store
\* (entries are told apart by their position: two may carry one name)
C19_MaterializerPin ==
    Materialized =>
        /\ Len(mat.calls) = Len(Creatable)
        /\ \A k \in DOMAIN Creatable :
              LET e == Creatable[k]
                  c == mat.calls[k]
              IN  /\ c.name = e.name
                  /\ EntryPin(e) # None =>
                        /\ "desired_service_gateway_user_plane" \in DOMAIN c
                        /\ c.desired_service_gateway_user_plane = EntryPin(e)
                  /\ (EntryPin(e) = None /\ UnpinnedUpTo(k) <= Len(mat.live)) =>
                        /\ "desired_service_gateway_user_plane" \in DOMAIN c
                        /\ c.desired_service_gateway_user_plane
                                = mat.live[UnpinnedUpTo(k)]

\* an invocation that has skipped a first entry pinned to a user plane the
\* store lacks, created a second with its pin, and given the head of the FIFO
\* to a third without pin
C19_Witness ==
    /\ Materialized
    /\ Len(NewEntries) = 3
    /\ EntryPin(NewEntries[1]) # None
    /\ ~InSeq(EntryPin(NewEntries[1]), mat.live)
    /\ EntryPin(NewEntries[2]) # None
    /\ InSeq(EntryPin(NewEntries[2]), mat.live)
    /\ EntryPin(NewEntries[3]) = None
    /\ Len(mat.calls) = 2
    /\ mat.calls[1].name = NewEntries[2].name
    /\ mat.calls[1].desired_service_gateway_user_plane
            = EntryPin(NewEntries[2])
    /\ mat.calls[2].name = NewEntries[3].name
    /\ mat.calls[2].desired_service_gateway_user_plane = mat.live[1]

(***************************************************************************)
(* C20. Event dispatch: every item that the watch loop takes from the      *)
(* stream with a name in one of the four kinds starts one map_shards call  *)
(* and an item without such a name starts none; a sweep that starts reads  *)
(* the store anew; the watch thread leaves the loop only when the stop     *)
(* signal is set, so a failed sweep does not end it and the next named     *)
(* item starts a new sweep.                                                *)
(***************************************************************************)
\* the watch thread has just read the snapshot of a sweep
JustRead ==
    /\ sw["watch"].stage \in {"reset", "map"}
    /\ sw["watch"].i = 1
    /\ sw["watch"].pure

C20_EventDispatch ==
    /\ taken.unswept = 0
    /\ taken.extra = 0
    /\ pc.watch = "exited" => stop_thread
    /\ JustRead =>
          /\ sw["watch"].sgs = sgs
          /\ sw["watch"].sgups = sgups
          /\ sw["watch"].shards = shards
          /\ Len(sgups) > 0 =>
                (sw["watch"].tsfs = tsfs /\ sw["watch"].ncs = ncs)

\* the watch loop has skipped an item without name, and has started a sweep
\* for a named item after a sweep that failed on the store
C20_Witness ==
    /\ taken.skipped
    /\ taken.resumed
    /\ pc.watch = "map_shards"

(***************************************************************************)
(* C21. Retention: a shard of the snapshot whose desired user plane is a   *)
(* user plane of the snapshot, and which the policy does not pin or pins   *)
(* to that user plane, keeps that user plane whatever the loads and the    *)
(* eligibility of the user planes are: the sweep selects it by retention,  *)
(* an update it issues for the shard carries that user plane and the       *)
(* stored prefix, and the shard is stored with that user plane, its prefix *)
(* and its capacity during and after the sweep (also when the policy file  *)
(* cannot be loaded and the sweep ends at the shard).  The update replaces  *)
(* the network connections of the shard and, with them, its TSF map and    *)
(* its service groups: that only the network connections may change does   *)
(* not hold.                                                               *)
(***************************************************************************)
\* the shard of a snapshot is bound to a user plane of the snapshot and the
\* policy has no other user plane for it
Retainable(h, fr) ==
    /\ h.desired_service_gateway_user_plane \in UpNamesOf(fr)
    /\ PinOf(h.name) \in {None, h.desired_service_gateway_user_plane}

\* C21, as the claim states it: a sweep keeps the desired user plane of every
\* retainable shard and only the network connections of the shard may
\* change, so that its prefix, its capacity, its TSF map and its service
\* groups are stored as the sweep read them
C21_OnlyNcSetChanges ==
    \A t \in Sweepers :
        sw[t].stage \in {"map", "write", "dump", "done"} =>
            \A k \in DOMAIN sw[t].shards :
                LET h == sw[t].shards[k] IN
                Retainable(h, sw[t]) =>
                    /\ Stored(h.name).desired_service_gateway_user_plane
                          = h.desired_service_gateway_user_plane
                    /\ Stored(h.name).prefix = h.prefix
                    /\ Stored(h.name).max_session_count = h.max_session_count
                    /\ Stored(h.name).current_tsf_network_connection
                          = h.current_tsf_network_connection
                    /\ Stored(h.name).service_groups_supported
                          = h.service_groups_supported

\* C21: a sweep keeps the desired user plane, the prefix and the capacity of
\* every retainable shard, whatever the loads and the eligibility are; the
\* network connections, the TSF map and the service groups of the shard are
\* what an update of the sweep may change
C21_Retention ==
    \A t \in Sweepers :
        sw[t].stage \in {"map", "write", "dump", "done"} =>
            \A k \in DOMAIN sw[t].shards :
                LET h == sw[t].shards[k] IN
                Retainable(h, sw[t]) =>
                    /\ Stored(h.name).desired_service_gateway_user_plane
                          = h.desired_service_gateway_user_plane
                    /\ Stored(h.name).prefix = h.prefix
                    /\ Stored(h.name).max_session_count = h.max_session_count
                    /\ (k \in DOMAIN sw[t].log /\ sw[t].log[k].act # "raise") =>
                          /\ sw[t].log[k].mode = "retain"
                          /\ sw[t].log[k].act \in {"update", "none", "UpsfError"}
                          /\ sw[t].log[k].act = "update" =>
                                /\ sw[t].log[k].params
                                        .desired_service_gateway_user_plane
                                      = h.desired_service_gateway_user_plane
                                /\ sw[t].log[k].params.prefix = h.prefix

\* a finished sweep has updated the network connections, the TSF map and the
\* service groups of a shard without pin and has left it on its user plane,
\* which is not eligible, while the snapshot has an eligible user plane
\* without load
C21_Witness ==
    \E t \in Sweepers :
        /\ Done(t)
        /\ Len(sw[t].sgups) = 2
        /\ ~Eligible(sw[t].sgups[1], sw[t])
        /\ Eligible(sw[t].sgups[2], sw[t])
        /\ sw[t].sgups[2].allocated_session_count = 0
        /\ Retainable(sw[t].shards[1], sw[t])
        /\ PinOf(sw[t].shards[1].name) = None
        /\ sw[t].shards[1].desired_service_gateway_user_plane
              = sw[t].sgups[1].name
        /\ sw[t].log[1].act = "update"
        /\ Stored(sw[t].shards[1].name).desired_service_gateway_user_plane
              = sw[t].sgups[1].name
        /\ Stored(sw[t].shards[1].name).desired_network_connection
              # sw[t].shards[1].desired_network_connection
        /\ Stored(sw[t].shards[1].name).current_tsf_network_connection
              # sw[t].shards[1].current_tsf_network_connection
        /\ Stored(sw[t].shards[1].name).service_groups_supported
              # sw[t].shards[1].service_groups_supported

(***************************************************************************)
(* C22. Lifecycle frame of the shards: the list of shards changes only by  *)
(* a createShard of create_default_items or an updateShard of a sweep; no  *)
(* step removes a shard, so the set of shard names never shrinks; an       *)
(* updateShard is issued for the shard of the snapshot that the sweep is   *)
(* at, carries the prefix list of that shard and changes no other shard,   *)
(* and after it the shard is stored with the prefix list it had before.    *)
(***************************************************************************)
\* the step is a pass of the sweep of thread t over a shard
SweepPass(t) == Len(sw'[t].log) > Len(sw[t].log)

\* the step is a createShard of create_default_items
CreatePass == Len(mat'.calls) > Len(mat.calls)

\* C22: shards are only created by the materializer and updated by sweeps,
\* never deleted, and an update leaves the prefix list of its shard as it is
C22_ShardLifecycleFrame ==
    [][/\ Range(Names(shards)) \subseteq Range(Names(shards'))
       /\ shards' # shards => (CreatePass \/ \E t \in Sweepers : SweepPass(t))
       /\ \A t \in Sweepers :
             SweepPass(t) =>
                LET h == sw[t].shards[sw[t].i]
                    e == sw'[t].log[Len(sw'[t].log)]
                IN  /\ Names(shards') = Names(shards)
                    /\ \A i \in DOMAIN shards :
                          /\ shards[i].name # h.name => shards'[i] = shards[i]
                          /\ sw[t].pure => shards'[i].prefix = shards[i].prefix
                    /\ e.act # "update" => shards' = shards
                    /\ e.act = "update" =>
                          /\ e.params.name = h.name
                          /\ e.params.prefix = h.prefix
                          /\ shards'[IndexOf(shards, h.name)].prefix = h.prefix
      ]_vars

\* a sweep has updated a shard that create_default_items had created, and
\* the shard is stored with the prefix list of its policy entry
C22_Witness ==
    \E t \in Sweepers :
        /\ Len(Updates(sw[t].log)) > 0
        /\ \E k \in DOMAIN mat.calls :
              /\ mat.calls[k].name = Updates(sw[t].log)[1].shard
              /\ Stored(mat.calls[k].name).prefix = mat.calls[k].prefix
              /\ Len(mat.calls[k].prefix) > 0
              /\ Stored(mat.calls[k].name).desired_network_connection # <<>>

(***************************************************************************)
(* C23. The periodic task survives a failed tick: when an exception leaves *)
(* create_default_items in a tick of the periodic task (the policy file    *)
(* does not load, a call of the store fails), the call is over, the task   *)
(* is at its sleep again and is able to begin the next call; the task ends *)
(* only with the process.                                                  *)
(***************************************************************************)
\* the last create_default_items call was made by the periodic task and an
\* exception has left it
TickFailed == mat.who = "register" /\ mat.raised

C23_PeriodicTaskSurvives ==
    /\ pc.register = "dead" => pc.main = Crashed
    /\ (TickFailed /\ pc.main # Crashed) =>
          /\ cd.stage = "idle"
          /\ pc.register = "sleep"
          /\ (IF Entered(policy, sgups) = "raise" THEN faultsLeft > 0
              ELSE ticksLeft > 0)
                => ENABLED CreateDefaultItemsBegin("register")

\* a tick that followed a failed tick has created a shard and has returned
C23_Witness ==
    /\ mat.retry
    /\ mat.who = "register"
    /\ ~mat.raised
    /\ cd.stage = "idle"
    /\ Len(mat.calls) > 0
    /\ pc.register = "sleep"


(***************************************************************************)
(* C24. Derived fields follow the snapshot: when a sweep has run to its    *)
(* end with no one else changing the store meanwhile, every shard for      *)
(* which it computed the desired state is stored with the TSF-to-NC map    *)
(* the sweep computed and with the service groups of the chosen user plane *)
(* of the snapshot, also when the user plane and the network connection    *)
(* names it computed are the stored ones.                                  *)
(***************************************************************************)
\* the service groups that the snapshot gives for the user plane called up
GroupsOf(fr, up) ==
    ServiceGroupsSupported(
        fr.sgups[IndexOf(fr.sgups, up)].supported_service_group)

C24_DerivedFieldsFollowSnapshot ==
    \A t \in Sweepers :
        (Done(t) /\ sw[t].outcome = "completed" /\ sw[t].pure) =>
            \A k \in DOMAIN sw[t].log :
                LET e == sw[t].log[k]
                IN  (e.act \in {"update", "none"} /\ e.mode # "-") =>
                        /\ Stored(e.shard).current_tsf_network_connection
                                = e.tsf_nc
                        /\ Stored(e.shard).service_groups_supported
                                = GroupsOf(sw[t], e.up)


(***************************************************************************)
(* C25. One choice per sweep: within one sweep, all shards without pin     *)
(* whose desired user plane the snapshot lacks are given the same user     *)
(* plane, and the updates issued for them carry it: the loads are those of *)
(* the snapshot, whatever the sweep has assigned so far.                   *)
(***************************************************************************)
C25_OneChoicePerSweep ==
    \A t \in Sweepers :
        \A j, k \in DOMAIN sw[t].log :
            (Reselected(sw[t], j) /\ Reselected(sw[t], k)) =>
                /\ sw[t].log[j].up = sw[t].log[k].up
                /\ sw[t].log[j].act = "update" =>
                      sw[t].log[j].params.desired_service_gateway_user_plane
                          = sw[t].log[k].up

\* a sweep over two eligible user planes of equal load has given both of two
\* shards to the first one
C25_Witness ==
    \E t \in Sweepers :
        /\ Done(t)
        /\ Reselected(sw[t], 1) /\ Reselected(sw[t], 2)
        /\ sw[t].log[1].act = "update" /\ sw[t].log[2].act = "update"
        /\ Len(sw[t].sgups) = 2
        /\ \A k \in 1..2 : Eligible(sw[t].sgups[k], sw[t])
        /\ LoadAtMost(sw[t].sgups[2], sw[t].sgups[1])
        /\ \A j \in 1..2 :
              Stored(sw[t].shards[j].name).desired_service_gateway_user_plane
                  = sw[t].sgups[1].name


(***************************************************************************)
(* C26. Eligibility of dynamic bindings: when a sweep has run to its end   *)
(* with no one else changing the store meanwhile, no shard of its snapshot *)
(* that the policy does not pin is stored with a desired user plane that   *)
(* the snapshot holds as not eligible (without capacity or of a service    *)
(* gateway that is not listed), whoever bound the shard to it: a sweep,    *)
(* the FIFO of create_default_items or another client of the store.        *)
(***************************************************************************)
\* the shard called name is stored with a desired user plane that the
\* snapshot holds and that is not eligible in it
BoundToIneligible(name, fr) ==
    LET up == Stored(name).desired_service_gateway_user_plane
    IN  /\ up \in UpNamesOf(fr)
        /\ ~Eligible(fr.sgups[IndexOf(fr.sgups, up)], fr)

C26_DynamicBindingsEligible ==
    \A t \in Sweepers :
        (Done(t) /\ sw[t].outcome = "completed" /\ sw[t].pure) =>
            \A k \in DOMAIN sw[t].shards :
                PinOf(sw[t].shards[k].name) = None =>
                    ~BoundToIneligible(sw[t].shards[k].name, sw[t])


(***************************************************************************)
(* C27. At most one create per name: the createShard calls that one        *)
(* create_default_items invocation issues are for names that differ from   *)
(* one another, also when two entries of the policy carry the same name    *)
(* and the store holds no shard of that name.                              *)
(***************************************************************************)
C27_AtMostOneCreatePerName ==
    \A j, k \in DOMAIN mat.calls :
        mat.calls[j].name = mat.calls[k].name => j = k


(***************************************************************************)
(* C28. create_default_items and map_shards run concurrently, without a    *)
(* lock: in every interleaving a sweep writes only to the shards of its    *)
(* own snapshot, each by its own pass of the loop, and a sweep that has    *)
(* ended without an exception has run the loop for every shard of its       *)
(* snapshot that create_default_items has created, so that the sweep which *)
(* the shard event of a create starts processes the created shard.         *)
(***************************************************************************)
\* the names of the shards that the last two create_default_items calls
\* have created
CreatedNames ==
    {mat.calls[k].name : k \in DOMAIN mat.calls}
        \cup {mat.prev[k].name : k \in DOMAIN mat.prev}

C28_ConcurrentWithoutLock ==
    \A t \in Sweepers :
        /\ \A k \in DOMAIN sw[t].log :
              /\ sw[t].log[k].shard = sw[t].shards[k].name
              /\ sw[t].log[k].act = "update" =>
                    sw[t].log[k].params.name = sw[t].shards[k].name
        /\ (Done(t) /\ sw[t].outcome \in {"completed", "returned"}) =>
              \A k \in DOMAIN sw[t].shards :
                  sw[t].shards[k].name \in CreatedNames =>
                      k \in DOMAIN sw[t].log

====
